---- MODULE Spec2Model ----
(***************************************************************************)
(* Model of the chat-context-mcp core: the two source readers (Cursor's    *)
(* SQLite store, Claude Code's JSONL files), the metadata store            *)
(* (src/core/metadata-db.ts) and the facade CursorContext                  *)
(* (src/core/api.ts) with its synchronization engine.                      *)
(*                                                                         *)
(* A composite session id "<source>:<native-id>" is the pair               *)
(* <<source, native-id>>.  A facade argument is a reference                *)
(* [prefix, id]: prefix "" is a bare native id (no colon).                 *)
(* Date.now() is the variable now, which only moves forward.               *)
(* The column last_accessed (rewritten with Date.now() by every upsert)    *)
(* is not part of the model.                                               *)
(***************************************************************************)
EXTENDS Integers, Sequences, FiniteSets, TLC

VARIABLES
  source,        \* the two source stores: composite id -> session as stored
  writes,        \* number of writes of the host applications so far
  meta,          \* table session_metadata: stored composite id -> row
  now,           \* Date.now()
  lastSyncTime,  \* CursorContext.lastSyncTime
  autoSync,      \* CursorContext.autoSync
  calls,         \* the listSessions calls in flight: where each is suspended
  handles,       \* the field db of CursorDB and of MetadataDB
  conn,          \* CursorDB.connect: its options, loop counter, waits and error
  disk,          \* the content of the Cursor store, in its two shapes
  reply,         \* what the last call of a reader returned or threw
  pureCall       \* a call of a pure function: its argument and its result

coreVars == <<source, writes, meta, now, lastSyncTime, autoSync, calls>>
readerVars == <<handles, conn, disk, reply>>
vars == <<source, writes, meta, now, lastSyncTime, autoSync, calls,
          handles, conn, disk, reply, pureCall>>

\* ---------------------------------------------------------------- bounds
MaxTime == 2
MaxMsgs == 1
MaxLimit == 1
MaxWrites == 2
MaxListTime == 4
MaxCalls == 2
MaxRetriesOpt == 6
MaxPathLen == 4
MaxCwdMsgs == 3
MaxChildren == 2

\* ------------------------------------------------------------- universe
NULL == "null"

CursorOrder == <<"a", "b">>
ClaudeOrder == <<"a">>

RECURSIVE SeqToSet(_)
SeqToSet(s) == IF s = <<>> THEN {} ELSE {Head(s)} \cup SeqToSet(Tail(s))

CursorIds == SeqToSet(CursorOrder)
ClaudeIds == SeqToSet(ClaudeOrder)
NativeIds == CursorIds \cup ClaudeIds
Sessions == ({"cursor"} \X CursorIds) \cup ({"claude"} \X ClaudeIds)
MetaIds == {"cursor", "claude"} \X NativeIds
\* the session arguments given to setNickname, addTag, removeTag, getSession
Refs == {"", "cursor"} \X {"a"}
\* the sessions whose stored messages may become unparsable
Corruptible == {<<"cursor", "b">>}
Nicknames == {"n"}
Tags == {"t"}

\* The characters of the names above: TLC strings are atomic, so the
\* spelling of a name is given here.  The native ids a and b are the
\* UUIDs "s1x" and "s2y", which share their first character; "s1" is the
\* partial id of a alone, "cursor:b" a nickname spelled as the composite id
\* of b; a name not listed is one character that occurs in no other name.
Chars(s) ==
  CASE s = "cursor" -> <<"c", "u", "r", "s", "o", "r">>
    [] s = "claude" -> <<"c", "l", "a", "u", "d", "e">>
    [] s = "a" -> <<"s", "1", "x">>
    [] s = "b" -> <<"s", "2", "y">>
    [] s = "s1" -> <<"s", "1">>
    [] s = "cursor:b" -> <<"c", "u", "r", "s", "o", "r", ":", "s", "2", "y">>
    [] OTHER -> <<s>>

\* the string a reference or a stored composite id stands for
Str(ref) == IF ref[1] = "" THEN Chars(ref[2])
            ELSE Chars(ref[1]) \o <<":">> \o Chars(ref[2])

\* s LIKE 'p%'
IsPrefix(p, s) == Len(p) <= Len(s) /\ SubSeq(s, 1, Len(p)) = p

\* workspace path the extractors recover from a session's messages
WorkspaceOf(sid) == IF sid = <<"cursor", "a">> THEN "/p/app"
                    ELSE IF sid[1] = "claude" THEN "/q/lib" ELSE NULL

\* ------------------------------------------------------- MetadataDB rows
RowOf(nickname, tags, path, name, hasProject, created, synced, preview, count) ==
  [source |-> "cursor", nickname |-> nickname, tags |-> tags,
   project_path |-> path, project_name |-> name, has_project |-> hasProject,
   created_at |-> created, last_synced_at |-> synced,
   first_message_preview |-> preview, message_count |-> count]

\* the SessionMetadata object handed to upsertSessionMetadata
MetaObj(nickname, tags, path, name, hasProject, created, synced, preview, count) ==
  [nickname |-> nickname, tags |-> tags, project_path |-> path,
   project_name |-> name, has_project |-> hasProject, created_at |-> created,
   last_synced_at |-> synced, first_message_preview |-> preview,
   message_count |-> count]

\* SQL NULL in the column tags (a JSON array otherwise); JS undefined
NoTags == <<NULL>>

\* the row of a session id, with the table as a function on the stored ids
Put(m, sid, row) == [x \in DOMAIN m \cup {sid} |-> IF x = sid THEN row ELSE m[x]]

\* rowToMetadata: falsy columns come back undefined (0 for the numbers)
rowToMetadata(row) ==
  MetaObj(row.nickname, row.tags, row.project_path, row.project_name,
          row.has_project, row.created_at, row.last_synced_at,
          row.first_message_preview, row.message_count)

\* MetadataDB.getSessionMetadata; callers test sid \in DOMAIN m for null
getSessionMetadata(m, sid) == rowToMetadata(m[sid])

\* ids of the rows holding a nickname
NicknameHolders(m, nickname) == {sid \in DOMAIN m : m[sid].nickname = nickname}

\* column nickname is declared UNIQUE
UniqueViolation(m, sid, nickname) ==
  nickname # NULL /\ NicknameHolders(m, nickname) \ {sid} # {}

\* upsertSessionMetadata on a table whose column nickname is not UNIQUE
upsertSessionMetadata_noUnique(m, sid, obj, t) ==
  LET synced == IF obj.last_synced_at = 0 THEN t ELSE obj.last_synced_at
      created == IF sid \in DOMAIN m THEN m[sid].created_at
                 ELSE IF obj.created_at = 0 THEN t ELSE obj.created_at
  IN [ok |-> TRUE,
      meta |-> Put(m, sid, RowOf(obj.nickname, obj.tags, obj.project_path,
                                 obj.project_name, obj.has_project, created,
                                 synced, obj.first_message_preview,
                                 obj.message_count))]

\* upsertSessionMetadata whose DO UPDATE leaves the nickname of the row alone
upsertSessionMetadata_keepsNickname(m, sid, obj, t) ==
  LET nickname == IF sid \in DOMAIN m THEN m[sid].nickname ELSE obj.nickname IN
  IF UniqueViolation(m, sid, nickname)
  THEN [ok |-> FALSE, meta |-> m]
  ELSE LET synced == IF obj.last_synced_at = 0 THEN t ELSE obj.last_synced_at
           created == IF sid \in DOMAIN m THEN m[sid].created_at
                      ELSE IF obj.created_at = 0 THEN t ELSE obj.created_at
       IN [ok |-> TRUE,
           meta |-> Put(m, sid, RowOf(nickname, obj.tags, obj.project_path,
                                      obj.project_name, obj.has_project, created,
                                      synced, obj.first_message_preview,
                                      obj.message_count))]

\* upsertSessionMetadata: INSERT ... ON CONFLICT(session_id) DO UPDATE.
\* created_at and source are written by the INSERT only; x || Date.now()
\* replaces an undefined or zero time.
upsertSessionMetadata(m, sid, obj, t) ==
  IF UniqueViolation(m, sid, obj.nickname)
  THEN [ok |-> FALSE, meta |-> m]
  ELSE LET synced == IF obj.last_synced_at = 0 THEN t ELSE obj.last_synced_at
           created == IF sid \in DOMAIN m THEN m[sid].created_at
                      ELSE IF obj.created_at = 0 THEN t ELSE obj.created_at
           row == RowOf(obj.nickname, obj.tags, obj.project_path,
                        obj.project_name, obj.has_project, created, synced,
                        obj.first_message_preview, obj.message_count)
       IN [ok |-> TRUE, meta |-> Put(m, sid, row)]

\* MetadataDB.getSessionByNickname: the set of matching ids (at most one)
getSessionByNickname(m, nickname) == NicknameHolders(m, nickname)

\* MetadataDB.setNickname: uniqueness check, UPDATE, and an upsert of a new
\* row when the UPDATE changed nothing
MetadataDB_setNickname(m, sid, nickname, t) ==
  IF getSessionByNickname(m, nickname) \ {sid} # {}
  THEN [ok |-> FALSE, meta |-> m]
  ELSE IF sid \in DOMAIN m
       THEN [ok |-> TRUE, meta |-> [m EXCEPT ![sid].nickname = nickname]]
       ELSE upsertSessionMetadata(m, sid,
              MetaObj(nickname, NoTags, NULL, NULL, FALSE, 0, 0, NULL, 0), t)

Includes(seq, x) == \E i \in 1..Len(seq) : seq[i] = x

\* addTag without the test tags.includes(tag)
MetadataDB_addTag_noIncludes(m, sid, tag, t) ==
  IF sid \notin DOMAIN m
  THEN upsertSessionMetadata(m, sid,
         MetaObj(NULL, <<tag>>, NULL, NULL, FALSE, 0, 0, NULL, 0), t)
  ELSE LET metadata == getSessionMetadata(m, sid)
           tags == IF metadata.tags = NoTags THEN <<>> ELSE metadata.tags IN
       upsertSessionMetadata(m, sid, [metadata EXCEPT !.tags = Append(tags, tag)], t)

\* MetadataDB.addTag
MetadataDB_addTag(m, sid, tag, t) ==
  IF sid \notin DOMAIN m
  THEN upsertSessionMetadata(m, sid,
         MetaObj(NULL, <<tag>>, NULL, NULL, FALSE, 0, 0, NULL, 0), t)
  ELSE LET metadata == getSessionMetadata(m, sid)
           tags == IF metadata.tags = NoTags THEN <<>> ELSE metadata.tags IN
       IF Includes(tags, tag) THEN [ok |-> TRUE, meta |-> m]
       ELSE upsertSessionMetadata(m, sid,
              [metadata EXCEPT !.tags = Append(tags, tag)], t)

\* Array.prototype.filter(t => t !== tag)
RECURSIVE FilterOut(_, _)
FilterOut(seq, x) ==
  IF seq = <<>> THEN <<>>
  ELSE IF Head(seq) = x THEN FilterOut(Tail(seq), x)
       ELSE <<Head(seq)>> \o FilterOut(Tail(seq), x)

\* MetadataDB.removeTag
MetadataDB_removeTag(m, sid, tag, t) ==
  IF sid \notin DOMAIN m \/ m[sid].tags = NoTags THEN [ok |-> TRUE, meta |-> m]
  ELSE LET metadata == getSessionMetadata(m, sid) IN
       upsertSessionMetadata(m, sid,
         [metadata EXCEPT !.tags = FilterOut(metadata.tags, tag)], t)

\* MetadataDB.deleteSessionMetadata
deleteSessionMetadata(m, sid) == [x \in DOMAIN m \ {sid} |-> m[x]]

\* ------------------------------------------------------- source readers
Absent == [present |-> FALSE, msgs |-> 0, ts |-> 0, nick |-> NULL, data |-> "ok"]

Src(src, sid) == IF sid \in Sessions THEN src[sid] ELSE Absent

\* CursorDB.getComposerData: the row of the session, or null
getComposerData(src, id) == Src(src, <<"cursor", id>>).present

\* ClaudeCodeDB.getSessionMessages: number of messages read, 0 when no file
getSessionMessages(src, id) ==
  IF Src(src, <<"claude", id>>).present THEN Src(src, <<"claude", id>>).msgs ELSE 0

\* isEmptySession (workspace-extractor.ts): a session with zero messages
isEmptySession(src, id) == Src(src, <<"cursor", id>>).msgs = 0

\* stable sort by timestamp, newest first (Array.prototype.sort, ORDER BY)
RECURSIVE InsertByTs(_, _, _, _)
InsertByTs(seq, x, src, kind) ==
  IF seq = <<>> THEN <<x>>
  ELSE IF src[<<kind, Head(seq)>>].ts >= src[<<kind, x>>].ts
       THEN <<Head(seq)>> \o InsertByTs(Tail(seq), x, src, kind)
       ELSE <<x>> \o seq

RECURSIVE SortByTs(_, _, _)
SortByTs(order, src, kind) ==
  IF order = <<>> THEN <<>>
  ELSE InsertByTs(SortByTs(SubSeq(order, 1, Len(order) - 1), src, kind),
                  order[Len(order)], src, kind)

RECURSIVE SelectSeq2(_, _, _, _)
SelectSeq2(order, src, kind, needMsgs) ==
  IF order = <<>> THEN <<>>
  ELSE LET s == src[<<kind, Head(order)>>]
           rest == SelectSeq2(Tail(order), src, kind, needMsgs) IN
       IF s.present /\ (~needMsgs \/ s.msgs > 0) THEN <<Head(order)>> \o rest
       ELSE rest

\* limit ? sorted.slice(0, limit) : sorted
Slice(seq, limit) ==
  IF limit = 0 \/ limit >= Len(seq) THEN seq ELSE SubSeq(seq, 1, limit)

\* CursorDB.getAllSessionTimestamps: the ids in the order of the returned Map
getAllSessionTimestamps(src, limit) ==
  Slice(SortByTs(SelectSeq2(CursorOrder, src, "cursor", FALSE), src, "cursor"), limit)

\* ClaudeCodeDB.getSessionTimestamps: files without a line are not listed
getSessionTimestamps(src, limit) ==
  Slice(SortByTs(SelectSeq2(ClaudeOrder, src, "claude", TRUE), src, "claude"), limit)

\* ------------------------------------------------- synchronization engine
\* getProjectName: the last segment of the paths of WorkspaceOf
getProjectName(path) == IF path = "/p/app" THEN "app" ELSE "lib"

\* creation time recorded by the host application for every session
CreatedAt == 1

\* an import that stamps last_synced_at with the session's creation time
ImportedObj_syncedAtCreation(src, sid, t) ==
  LET path == WorkspaceOf(sid) IN
  MetaObj(src[sid].nick, NoTags, path,
          IF path # NULL THEN getProjectName(path) ELSE NULL,
          path # NULL, CreatedAt, CreatedAt, "hello", src[sid].msgs)

\* an import that sets has_project whether or not a workspace was found
ImportedObj_alwaysHasProject(src, sid, t) ==
  LET path == WorkspaceOf(sid) IN
  MetaObj(src[sid].nick, NoTags, path,
          IF path # NULL THEN getProjectName(path) ELSE NULL,
          TRUE, CreatedAt, t, "hello", src[sid].msgs)

\* the SessionMetadata a single-session import builds
ImportedObj(src, sid, t) ==
  LET path == WorkspaceOf(sid) IN
  MetaObj(src[sid].nick, NoTags, path,
          IF path # NULL THEN getProjectName(path) ELSE NULL,
          path # NULL, CreatedAt, t, "hello", src[sid].msgs)

\* syncCursorSession without the isEmptySession test
syncCursorSession_noEmptyCheck(m, src, id, t, fault) ==
  LET sid == <<"cursor", id>> IN
  IF fault = "busy" THEN [meta |-> m, imported |-> FALSE, raised |-> "store"]
  ELSE IF fault = "gone" \/ ~getComposerData(src, id)
  THEN [meta |-> m, imported |-> FALSE, raised |-> "none"]
  ELSE IF src[sid].data = "corrupt"
  THEN [meta |-> m, imported |-> FALSE, raised |-> "corrupt"]
  ELSE LET r == upsertSessionMetadata(m, sid, ImportedObj(src, sid, t), t) IN
       [meta |-> r.meta, imported |-> r.ok,
        raised |-> IF r.ok THEN "none" ELSE "constraint"]

\* syncCursorSession reading unparsable messages as if they were sound
syncCursorSession_importsCorrupt(m, src, id, t, fault) ==
  LET sid == <<"cursor", id>> IN
  IF fault = "busy" THEN [meta |-> m, imported |-> FALSE, raised |-> "store"]
  ELSE IF fault = "gone" \/ ~getComposerData(src, id)
  THEN [meta |-> m, imported |-> FALSE, raised |-> "none"]
  ELSE IF isEmptySession(src, id)
  THEN [meta |-> m, imported |-> FALSE, raised |-> "none"]
  ELSE LET r == upsertSessionMetadata(m, sid, ImportedObj(src, sid, t), t) IN
       [meta |-> r.meta, imported |-> r.ok,
        raised |-> IF r.ok THEN "none" ELSE "constraint"]

\* CursorContext.syncCursorSession.  fault: what happens to the store
\* query of this load ("busy": it fails with DBConnectionError; "gone": the
\* session was deleted after it was listed, so no row comes back).  Every
\* exception is caught and the import returns null.
syncCursorSession(m, src, id, t, fault) ==
  LET sid == <<"cursor", id>> IN
  IF fault = "busy" THEN [meta |-> m, imported |-> FALSE, raised |-> "store"]
  ELSE IF fault = "gone" \/ ~getComposerData(src, id)
  THEN [meta |-> m, imported |-> FALSE, raised |-> "none"]
  ELSE IF isEmptySession(src, id)
  THEN [meta |-> m, imported |-> FALSE, raised |-> "none"]
  ELSE IF src[sid].data = "corrupt"
  THEN [meta |-> m, imported |-> FALSE, raised |-> "corrupt"]
  ELSE LET r == upsertSessionMetadata(m, sid, ImportedObj(src, sid, t), t) IN
       [meta |-> r.meta, imported |-> r.ok,
        raised |-> IF r.ok THEN "none" ELSE "constraint"]

\* CursorContext.syncClaudeSession
syncClaudeSession(m, src, id, t) ==
  LET sid == <<"claude", id>> IN
  IF getSessionMessages(src, id) = 0
  THEN [meta |-> m, imported |-> FALSE, raised |-> "none"]
  ELSE LET r == upsertSessionMetadata(m, sid, ImportedObj(src, sid, t), t) IN
       [meta |-> r.meta, imported |-> r.ok,
        raised |-> IF r.ok THEN "none" ELSE "constraint"]

\* needsSync comparing with >= instead of >
needsSync_orEqual(m, sid, ts) ==
  sid \notin DOMAIN m \/ m[sid].last_synced_at = 0 \/ ts >= m[sid].last_synced_at

\* needsSync without the comparison of the timestamps
needsSync_ignoresTimestamp(m, sid, ts) ==
  sid \notin DOMAIN m \/ m[sid].last_synced_at = 0

\* needsSync of the bulk loops
needsSync(m, sid, ts) ==
  sid \notin DOMAIN m \/ m[sid].last_synced_at = 0 \/ ts > m[sid].last_synced_at

NoGlitch == [kind |-> "none", at |-> ""]

\* the loop of CursorContext.syncCursorSessions over the timestamp map;
\* acc = [meta, synced, swallowed]
RECURSIVE CursorLoop(_, _, _, _, _)
CursorLoop(acc, ids, src, t, glitch) ==
  IF ids = <<>> THEN acc
  ELSE LET id == Head(ids)
           sid == <<"cursor", id>>
           r == syncCursorSession(acc.meta, src, id, t,
                                  IF glitch.at = id THEN glitch.kind ELSE "none")
           next == IF needsSync(acc.meta, sid, src[sid].ts)
                   THEN [meta |-> r.meta,
                         synced |-> acc.synced + (IF r.imported THEN 1 ELSE 0),
                         swallowed |-> acc.swallowed +
                                       (IF r.raised = "store" THEN 1 ELSE 0)]
                   ELSE acc
       IN CursorLoop(next, Tail(ids), src, t, glitch)

\* the loop of CursorContext.syncClaudeSessions
RECURSIVE ClaudeLoop(_, _, _, _)
ClaudeLoop(acc, ids, src, t) ==
  IF ids = <<>> THEN acc
  ELSE LET id == Head(ids)
           sid == <<"claude", id>>
           r == syncClaudeSession(acc.meta, src, id, t)
           next == IF needsSync(acc.meta, sid, src[sid].ts)
                   THEN [acc EXCEPT !.meta = r.meta,
                           !.synced = @ + (IF r.imported THEN 1 ELSE 0)]
                   ELSE acc
       IN ClaudeLoop(next, Tail(ids), src, t)

\* CursorContext.syncSessions(limit, source) run at time t; limit 0 is no
\* limit.  A failing timestamp query (glitch connection, locked) is thrown
\* to the caller; err is the exception, synced the returned count.
syncSessions(m, src, t, limit, sel, glitch) ==
  LET start == [meta |-> m, synced |-> 0, swallowed |-> 0]
      afterCursor == IF sel \in {"cursor", "all"}
                     THEN CursorLoop(start, getAllSessionTimestamps(src, limit),
                                     src, t, glitch)
                     ELSE start
      done == IF sel \in {"claude", "all"}
              THEN ClaudeLoop(afterCursor, getSessionTimestamps(src, limit), src, t)
              ELSE afterCursor
  IN IF sel \in {"cursor", "all"} /\ glitch.kind \in {"connection", "locked"}
     THEN [err |-> IF glitch.kind = "locked" THEN "DBLockedError"
                   ELSE "DBConnectionError",
           meta |-> m, synced |-> 0, swallowed |-> 0]
     ELSE [err |-> "none", meta |-> done.meta, synced |-> done.synced,
           swallowed |-> done.swallowed]

\* ---------------------------------------------------------------- facade
\* resolution of the session argument of setNickname and addTag
Resolve(src, ref) ==
  IF ref[1] # "" THEN [err |-> "none", sid |-> ref]
  ELSE LET cursorData == getComposerData(src, ref[2])
           claudeMessages == getSessionMessages(src, ref[2]) IN
       IF cursorData /\ claudeMessages = 0
       THEN [err |-> "none", sid |-> <<"cursor", ref[2]>>]
       ELSE IF claudeMessages > 0 /\ ~cursorData
       THEN [err |-> "none", sid |-> <<"claude", ref[2]>>]
       ELSE IF cursorData /\ claudeMessages > 0
       THEN [err |-> "Ambiguous", sid |-> ref]
       ELSE [err |-> "SessionNotFound", sid |-> ref]

\* "If autoSync and no metadata exists, sync first"
ImportIfMissing(m, src, sid, t, auto) ==
  IF auto /\ sid \notin DOMAIN m
  THEN IF sid[1] = "cursor" THEN syncCursorSession(m, src, sid[2], t, "none").meta
       ELSE syncClaudeSession(m, src, sid[2], t).meta
  ELSE m

\* CursorContext.setNickname: the exception thrown and the store afterwards
setNickname(m, src, ref, nickname, t, auto) ==
  LET res == Resolve(src, ref) IN
  IF res.err # "none" THEN [err |-> res.err, meta |-> m, sid |-> ref]
  ELSE LET r == MetadataDB_setNickname(ImportIfMissing(m, src, res.sid, t, auto),
                                       res.sid, nickname, t) IN
       [err |-> IF r.ok THEN "none" ELSE "NicknameConflict", meta |-> r.meta,
        sid |-> res.sid]

\* CursorContext.addTag
addTag(m, src, ref, tag, t, auto) ==
  LET res == Resolve(src, ref) IN
  IF res.err # "none" THEN [err |-> res.err, meta |-> m, sid |-> ref]
  ELSE [err |-> "none", sid |-> res.sid,
        meta |-> MetadataDB_addTag(ImportIfMissing(m, src, res.sid, t, auto),
                                   res.sid, tag, t).meta]

\* CursorContext.removeTag: the argument goes to the store as it is
removeTag(m, ref, tag, t) == MetadataDB_removeTag(m, ref, tag, t).meta

\* the rows whose nickname is the string of the reference
NicknameMatches(m, ref) ==
  {sid \in DOMAIN m : m[sid].nickname # NULL /\ Chars(m[sid].nickname) = Str(ref)}

\* the rows of SELECT * FROM session_metadata WHERE session_id LIKE 'prefix%'
PrefixRows(m, ref) == {sid \in DOMAIN m : IsPrefix(Str(ref), Str(sid))}

\* MetadataDB.findSessionByIdPrefix: null for no row, the row of a single
\* match, and a thrown Error for more than one
findSessionByIdPrefix(m, ref) ==
  LET rows == PrefixRows(m, ref) IN
  IF rows = {} THEN [err |-> "none", found |-> {}]
  ELSE IF Cardinality(rows) > 1 THEN [err |-> "Error", found |-> {}]
  ELSE [err |-> "none", found |-> rows]

\* getSession with the lookup by exact id ahead of the lookup by nickname
Lookup_exactIdFirst(m, ref) ==
  IF ref \in DOMAIN m THEN [err |-> "none", found |-> {ref}]
  ELSE IF NicknameMatches(m, ref) # {}
  THEN [err |-> "none", found |-> NicknameMatches(m, ref)]
  ELSE IF findSessionByIdPrefix(m, ref).err # "none" \/ findSessionByIdPrefix(m, ref).found # {}
  THEN findSessionByIdPrefix(m, ref)
  ELSE IF ref[1] = "" /\ <<"cursor", ref[2]>> \in DOMAIN m
  THEN [err |-> "none", found |-> {<<"cursor", ref[2]>>}]
  ELSE [err |-> "none", found |-> {}]

\* the lookups of CursorContext.getSession before the on-demand import:
\* by nickname, by exact id, by id prefix, by "cursor:" + a bare id
Lookup(m, ref) ==
  IF NicknameMatches(m, ref) # {}
  THEN [err |-> "none", found |-> NicknameMatches(m, ref)]
  ELSE IF ref \in DOMAIN m THEN [err |-> "none", found |-> {ref}]
  ELSE IF findSessionByIdPrefix(m, ref).err # "none" \/ findSessionByIdPrefix(m, ref).found # {}
  THEN findSessionByIdPrefix(m, ref)
  ELSE IF ref[1] = "" /\ <<"cursor", ref[2]>> \in DOMAIN m
  THEN [err |-> "none", found |-> {<<"cursor", ref[2]>>}]
  ELSE [err |-> "none", found |-> {}]

\* getSession that imports on demand whether or not auto-sync is enabled
getSession_alwaysImports(m, src, ref, t, auto) ==
  LET looked == Lookup(m, ref)
      r == syncCursorSession(m, src, ref[2], t, "none") IN
  IF looked.err # "none" THEN [err |-> looked.err, meta |-> m, found |-> {}]
  ELSE IF looked.found = {} /\ ref[1] = ""
  THEN [err |-> IF r.imported THEN "none" ELSE "SessionNotFound",
        meta |-> r.meta,
        found |-> IF r.imported THEN {<<"cursor", ref[2]>>} ELSE {}]
  ELSE [err |-> IF looked.found = {} THEN "SessionNotFound" ELSE "none",
        meta |-> m, found |-> looked.found]

\* CursorContext.getSession(idOrNickname, {includeMessages: false}):
\* found is the set holding the id of the session returned
getSession(m, src, ref, t, auto) ==
  LET looked == Lookup(m, ref)
      r == syncCursorSession(m, src, ref[2], t, "none") IN
  IF looked.err # "none" THEN [err |-> looked.err, meta |-> m, found |-> {}]
  ELSE IF looked.found = {} /\ auto /\ ref[1] = ""
  THEN [err |-> IF r.imported THEN "none" ELSE "SessionNotFound",
        meta |-> r.meta,
        found |-> IF r.imported THEN {<<"cursor", ref[2]>>} ELSE {}]
  ELSE [err |-> IF looked.found = {} THEN "SessionNotFound" ELSE "none",
        meta |-> m, found |-> looked.found]

\* ------------------------------------------------------------------ listing
\* the rows of the table in the order a query without ORDER BY returns them
TableOrder ==
  <<<<"cursor", "a">>, <<"cursor", "b">>, <<"claude", "a">>, <<"claude", "b">>>>

RECURSIVE Keep(_, _)
Keep(seq, set) ==
  IF seq = <<>> THEN <<>>
  ELSE IF Head(seq) \in set THEN <<Head(seq)>> \o Keep(Tail(seq), set)
       ELSE Keep(Tail(seq), set)

\* stable sort of ids by a key, largest first (ORDER BY key DESC, and
\* Array.prototype.sort with a comparator b.key - a.key)
RECURSIVE InsertDesc(_, _, _)
InsertDesc(seq, x, key) ==
  IF seq = <<>> THEN <<x>>
  ELSE IF key[Head(seq)] >= key[x] THEN <<Head(seq)>> \o InsertDesc(Tail(seq), x, key)
       ELSE <<x>> \o seq

RECURSIVE SortDesc(_, _)
SortDesc(seq, key) ==
  IF seq = <<>> THEN <<>>
  ELSE InsertDesc(SortDesc(SubSeq(seq, 1, Len(seq) - 1), key), seq[Len(seq)], key)

\* the source of a listed SessionMetadata: rowToMetadata copies no source
\* from the row, so the field is undefined
SourceField(m, sid) ==
  IF "source" \in DOMAIN rowToMetadata(m[sid]) THEN rowToMetadata(m[sid]).source ELSE NULL

\* the session has at least one tag: s.tags && s.tags.length > 0
Tagged(m, sid) == m[sid].tags # NoTags /\ m[sid].tags # <<>>

\* MetadataDB.listSessions({tagged_only, limit}): tagged_only selects
\* "nickname IS NOT NULL"; ORDER BY created_at DESC LIMIT ?
MetadataDB_listSessions(m, taggedOnly, limit) ==
  Slice(SortDesc(Keep(TableOrder, {sid \in DOMAIN m : taggedOnly => m[sid].nickname # NULL}),
                 [sid \in DOMAIN m |-> m[sid].created_at]),
        limit)

\* MetadataDB.findByTag
findByTag(m, tag) ==
  Keep(TableOrder, {sid \in DOMAIN m : m[sid].tags # NoTags /\ Includes(m[sid].tags, tag)})

\* MetadataDB.listSessionsByProject
listSessionsByProject(m, projectPath) ==
  SortDesc(Keep(TableOrder, {sid \in DOMAIN m : m[sid].project_path = projectPath}),
           [sid \in DOMAIN m |-> m[sid].created_at])

\* the comparators of sortAndLimit as keys: a missing created_at sorts last
\* in both orders, a missing message_count is zero
SortKey(m, sortBy) ==
  [sid \in DOMAIN m |->
     IF sortBy = "newest" THEN m[sid].created_at
     ELSE IF sortBy = "oldest"
          THEN (IF m[sid].created_at = 0 THEN 0 - (MaxTime + 1) ELSE 0 - m[sid].created_at)
          ELSE m[sid].message_count]

\* CursorContext.sortAndLimit
sortAndLimit(m, sessions, sortBy, limit) == Slice(SortDesc(sessions, SortKey(m, sortBy)), limit)

SortOrders == {"newest", "oldest", "most_messages"}

\* CursorContext.listSessions after its sync: the ids of the sessions
\* returned, in order.  tag and projectPath NULL, limit 0: option not given
listSessions(m, projectPath, taggedOnly, limit, tag, sortBy, sel) ==
  LET bySource(seq) == IF sel = "all" THEN seq
                       ELSE Keep(seq, {sid \in DOMAIN m : SourceField(m, sid) = sel})
  IN IF tag # NULL
     THEN sortAndLimit(m,
            bySource(Keep(findByTag(m, tag),
                          {sid \in DOMAIN m :
                             projectPath # NULL => m[sid].project_path = projectPath})),
            sortBy, limit)
     ELSE IF projectPath # NULL
     THEN sortAndLimit(m,
            bySource(Keep(listSessionsByProject(m, projectPath),
                          {sid \in DOMAIN m : taggedOnly => Tagged(m, sid)})),
            sortBy, limit)
     ELSE sortAndLimit(m, bySource(MetadataDB_listSessions(m, taggedOnly, limit)),
                       sortBy, limit)

\* ------------------------------------------------------------- statistics
\* CursorDB.listComposerIds(limit)
listComposerIds(src, limit) == Slice(SelectSeq2(CursorOrder, src, "cursor", FALSE), limit)

\* MetadataDB.getStats: the counts of the aggregate query
MetadataDB_getStats(m) ==
  [total_sessions |-> Cardinality(DOMAIN m),
   sessions_with_nicknames |-> Cardinality({sid \in DOMAIN m : m[sid].nickname # NULL}),
   sessions_with_tags |-> Cardinality({sid \in DOMAIN m : m[sid].tags # NoTags}),
   sessions_with_projects |-> Cardinality({sid \in DOMAIN m : m[sid].has_project})]

\* CursorContext.getStats
getStats(m, src) ==
  LET metadataStats == MetadataDB_getStats(m)
      cursorSessions == listComposerIds(src, 1000) IN
  [totalSessionsInCursor |-> Len(cursorSessions),
   totalSessionsWithMetadata |-> metadataStats.total_sessions,
   sessionsWithNicknames |-> metadataStats.sessions_with_nicknames,
   sessionsWithTags |-> metadataStats.sessions_with_tags,
   sessionsWithProjects |-> metadataStats.sessions_with_projects]

\* ------------------------------------------------------------- connections
\* A handle is the field db of a store object: NULL, or a Database object
\* that is open.
NoHandles == [cursor |-> NULL, metadata |-> NULL]

\* CursorDB.isConnected, MetadataDB.isConnected: db !== null && db.open
isConnected(db) == db # NULL /\ db = "open"

\* close() in which the error of db.close() escapes before db is cleared
CursorDB_close_errorEscapes(db, throws) == IF db # NULL /\ ~throws THEN NULL ELSE db

\* CursorDB.close: the new value of db; throws is whether db.close() throws
CursorDB_close(db, throws) == IF db # NULL THEN NULL ELSE db

\* MetadataDB.close
MetadataDB_close(db, throws) == IF db # NULL THEN NULL ELSE db

\* CursorContext.close: the source store, then the metadata store
close(hs, cursorThrows, metadataThrows) ==
  [cursor |-> CursorDB_close(hs.cursor, cursorThrows),
   metadata |-> MetadataDB_close(hs.metadata, metadataThrows)]

\* the constructor's default for options.maxRetries
DefaultMaxRetries == 3
BaseWaitMs == 100
MaxWaitMs == 1000

RECURSIVE Pow2(_)
Pow2(n) == IF n = 0 THEN 1 ELSE 2 * Pow2(n - 1)

Min(x, y) == IF x < y THEN x ELSE y

\* a wait that is not capped
waitMs_uncapped(attempt) == BaseWaitMs * Pow2(attempt - 1)

\* the wait before the retry that follows a busy attempt
waitMs(attempt) == Min(BaseWaitMs * Pow2(attempt - 1), MaxWaitMs)

\* a connect() that has not been called: its loop counter, the waits it made,
\* the attempts it made and the error it threw
IdleConn(maxRetries) ==
  [pc |-> "idle", maxRetries |-> maxRetries, attempt |-> 0, tried |-> 0,
   waits |-> <<>>, last |-> "none", failure |-> "none"]

\* the condition under which a busy attempt is retried
retryAllowed(attempt, maxRetries) == attempt < maxRetries

\* ------------------------------------------------------- the store on disk
\* The Cursor store holds, for a session: its entry in the array allComposers
\* of the single document 'composer.composerData' (table ItemTable), its
\* value under the key 'composerData:<id>' (table cursorDiskKV), and its
\* messages under the keys 'bubbleId:<id>:<bubbleId>'.  A value is the
\* sequence of bubble ids of its headers, or "corrupt" (not JSON).
BubbleIds == {1, 2}
HeaderLists == {<<>>, <<1>>, <<1, 2>>, <<2, 1>>}
DiskId == "a"
NoRecord == [kind |-> "absent", headers |-> <<>>]
Corrupt == [kind |-> "corrupt", headers |-> <<>>]
Records == [kind : {"ok"}, headers : HeaderLists]
EmptyDisk == [doc |-> NoRecord, legacy |-> NoRecord, stored |-> {}]
Disks ==
  [doc : {NoRecord, Corrupt} \cup Records,
   legacy : {NoRecord, Corrupt} \cup Records,
   stored : SUBSET BubbleIds]

\* the entry of a session in the single document; a document that is not
\* JSON is corrupt for every session
DocEntry(d, id) ==
  IF d.doc.kind = "corrupt" \/ id = DiskId THEN d.doc ELSE NoRecord

\* the value under the key 'composerData:<id>'
LegacyRow(d, id) == IF id = DiskId THEN d.legacy ELSE NoRecord

\* the bubble ids stored under the keys 'bubbleId:<id>:*'
StoredBubbles(d, id) == IF id = DiskId THEN d.stored ELSE {}

NoReply == [op |-> "none", id |-> NULL, err |-> "none", value |-> <<>>]

\* what getComposerData returns: an error, null, or the composer data
Thrown(e) == [err |-> e, found |-> FALSE, headers |-> <<>>]
Null == [err |-> "none", found |-> FALSE, headers |-> <<>>]
Data(headers) == [err |-> "none", found |-> TRUE, headers |-> headers]

\* CursorDB.getComposerData: the entry of the single document first, converted
\* to {composerId, createdAt, lastUpdatedAt, name}; else the legacy key
CursorDB_getComposerData(d, id) ==
  LET composer == DocEntry(d, id)
      row == LegacyRow(d, id) IN
  IF composer.kind = "corrupt" THEN Thrown("DataCorruptionError")
  ELSE IF composer.kind = "ok" THEN Data(<<>>)
  ELSE IF row.kind = "absent" THEN Null
  ELSE IF row.kind = "corrupt" THEN Thrown("DataCorruptionError")
  ELSE Data(row.headers)

\* CursorDB.getBubbleData for every header, the missing bubbles skipped
RECURSIVE FetchBubbles(_, _)
FetchBubbles(headers, stored) ==
  IF headers = <<>> THEN <<>>
  ELSE (IF Head(headers) \in stored THEN <<Head(headers)>> ELSE <<>>)
       \o FetchBubbles(Tail(headers), stored)

\* a reader that returns no messages for a session it does not find
getSessionBubbles_missingIsEmpty(d, id) ==
  LET composerData == CursorDB_getComposerData(d, id) IN
  IF composerData.err # "none" THEN [err |-> composerData.err, value |-> <<>>]
  ELSE IF ~composerData.found THEN [err |-> "none", value |-> <<>>]
  ELSE [err |-> "none", value |-> FetchBubbles(composerData.headers, StoredBubbles(d, id))]

\* CursorDB.getSessionBubbles
getSessionBubbles(d, id) ==
  LET composerData == CursorDB_getComposerData(d, id) IN
  IF composerData.err # "none" THEN [err |-> composerData.err, value |-> <<>>]
  ELSE IF ~composerData.found THEN [err |-> "SessionNotFoundError", value |-> <<>>]
  ELSE IF Len(composerData.headers) = 0 THEN [err |-> "none", value |-> <<>>]
  ELSE [err |-> "none", value |-> FetchBubbles(composerData.headers, StoredBubbles(d, id))]

\* ------------------------------------------------------------ project names
\* A path is the sequence of its characters.
PathChars == {"/", "\\", "x", "y"}

RECURSIVE SeqsUpTo(_, _)
SeqsUpTo(S, n) ==
  IF n = 0 THEN {<<>>}
  ELSE LET shorter == SeqsUpTo(S, n - 1) IN
       shorter \cup {Append(s, c) : s \in shorter, c \in S}

Paths == SeqsUpTo(PathChars, MaxPathLen)

Unknown == <<"u", "n", "k", "n", "o", "w", "n">>

\* workspacePath.replace(/[\/\\]+$/, '')
RECURSIVE StripTrailing(_)
StripTrailing(s) ==
  IF s # <<>> /\ s[Len(s)] \in {"/", "\\"}
  THEN StripTrailing(SubSeq(s, 1, Len(s) - 1))
  ELSE s

\* s.includes(c)
Contains(s, c) == \E i \in 1..Len(s) : s[i] = c

\* parts[parts.length - 1] of s.split(separator)
RECURSIVE LastPart(_, _)
LastPart(s, separator) ==
  IF s = <<>> \/ s[Len(s)] = separator THEN <<>>
  ELSE Append(LastPart(SubSeq(s, 1, Len(s) - 1), separator), s[Len(s)])

\* getProjectNameFromPath
getProjectNameFromPath(workspacePath) ==
  IF workspacePath = <<>> THEN Unknown
  ELSE LET cleaned == StripTrailing(workspacePath) IN
       IF cleaned = <<>> THEN Unknown
       ELSE LET separator == IF Contains(cleaned, "\\") THEN "\\" ELSE "/"
                lastPart == LastPart(cleaned, separator) IN
            IF lastPart = <<>> THEN Unknown ELSE lastPart

\* --------------------------------------------------------- workspace info
\* A Claude Code message is its field cwd: a path, or "" when it has none.
Cwds == {"", "/p", "/q"}
MessageLists == SeqsUpTo(Cwds, MaxCwdMsgs)

\* Array.from(new Set(..)) that keeps every occurrence
RECURSIVE extractAllWorkspacePaths_keepsDuplicates(_)
extractAllWorkspacePaths_keepsDuplicates(messages) ==
  IF messages = <<>> THEN <<>>
  ELSE LET paths == extractAllWorkspacePaths_keepsDuplicates(
                      SubSeq(messages, 1, Len(messages) - 1))
           cwd == messages[Len(messages)] IN
       IF cwd # "" THEN Append(paths, cwd) ELSE paths

\* extractAllWorkspacePathsFromClaudeMessages: the Set in insertion order
RECURSIVE extractAllWorkspacePathsFromClaudeMessages(_)
extractAllWorkspacePathsFromClaudeMessages(messages) ==
  IF messages = <<>> THEN <<>>
  ELSE LET paths == extractAllWorkspacePathsFromClaudeMessages(
                      SubSeq(messages, 1, Len(messages) - 1))
           cwd == messages[Len(messages)] IN
       IF cwd # "" /\ ~Contains(paths, cwd) THEN Append(paths, cwd) ELSE paths

\* all the paths of the messages, as the workspace info takes them
AllPathsOf(messages) == extractAllWorkspacePathsFromClaudeMessages(messages)

\* getClaudeWorkspaceInfo, without the project name and the nickname
getClaudeWorkspaceInfo(messages) ==
  LET allPaths == AllPathsOf(messages) IN
  [primaryPath |-> IF Len(allPaths) > 0 THEN allPaths[1] ELSE NULL,
   allPaths |-> allPaths,
   hasProject |-> Len(allPaths) > 0,
   isMultiWorkspace |-> Len(allPaths) > 1]

NoInfo == [primaryPath |-> NULL, allPaths |-> <<>>, hasProject |-> FALSE,
           isMultiWorkspace |-> FALSE]

\* --------------------------------------------------------------- rich text
\* A Lexical node is its type, its text (a sequence of characters, empty when
\* the node has none) and its children.  The output is a sequence of
\* characters; a backtick, a fence of three backticks and a line break are
\* one element each.
Texts == {<<>>, <<"c">>, <<"a", "b">>}
Leaves == [type : {"text", "code-highlight"}, text : Texts, children : {<<>>}]
Blocks == [type : {"paragraph", "code"}, text : {<<>>},
           children : SeqsUpTo(Leaves, MaxChildren)]
Roots == [type : {"root"}, text : {<<>>}, children : {<<b>> : b \in Blocks}]
EmptyRoot == [type |-> "root", text |-> <<>>, children |-> <<>>]

\* the characters the flattening adds
Backtick == "backtick"
Fence == "fence"
Newline == "newline"

RECURSIVE extractTextFromNode(_)
RECURSIVE JoinChildren(_)

\* the texts of the children, one after the other
JoinChildren(children) ==
  IF children = <<>> THEN <<>>
  ELSE extractTextFromNode(Head(children)) \o JoinChildren(Tail(children))

\* extractTextFromNode; language is '' in every code block
extractTextFromNode(node) ==
  LET text == IF node.text # <<>> THEN node.text ELSE <<>>
      body == IF node.type = "code"
                THEN <<Newline, Fence, Newline>> \o JoinChildren(node.children)
                     \o <<Newline, Fence, Newline>>
              ELSE IF node.type = "code-highlight"
                THEN <<Backtick>> \o node.text \o <<Backtick>>
              ELSE JoinChildren(node.children)
      parts == text \o body IN
  IF node.type = "paragraph" /\ parts # <<>> THEN parts \o <<Newline>> ELSE parts

\* parseLexicalText of a document that is JSON and has a root
parseLexicalText(root) == extractTextFromNode(root)

\* ------------------------------------------------------------ pure calls
\* a call of a pure function that has not been made: its arguments, the
\* string it returned and the workspace info it returned
NoCall == [fn |-> "none", path |-> <<>>, messages |-> <<>>, node |-> EmptyRoot,
           out |-> <<>>, info |-> NoInfo]

\* no pure function is under test
PureIdle == pureCall = NoCall

\* the readers at rest: nothing opened, nothing read
ReaderIdle ==
  /\ handles = NoHandles
  /\ conn = IdleConn(DefaultMaxRetries)
  /\ disk = EmptyDisk
  /\ reply = NoReply

\* ----------------------------------------------------------------- state
\* the callers of listSessions, and a call that has not started; synced is
\* the count of its pass so far
Callers == 1..MaxCalls
IdleCall == [pc |-> "idle", syncFirst |-> FALSE, sel |-> "all", kind |-> "cursor",
             todo |-> <<>>, ran |-> FALSE, synced |-> 0]

Init ==
  /\ source = [sid \in Sessions |->
                 [present |-> TRUE, msgs |-> 0, ts |-> 0, nick |-> NULL, data |-> "ok"]]
  /\ writes = 0
  /\ meta = <<>>
  /\ now = 1
  /\ lastSyncTime = 0
  /\ autoSync \in BOOLEAN
  /\ calls = [c \in Callers |-> IdleCall]
  /\ ReaderIdle
  /\ PureIdle

\* ----------------------------------------------------------- environment
\* the clock advances
Tick ==
  /\ now < MaxTime
  /\ now' = now + 1
  /\ UNCHANGED <<pureCall, readerVars, source, writes, meta, lastSyncTime, autoSync, calls>>

\* the host application writes to a session: a new message (whose tool call
\* may carry a nickname) or an update of the session alone.  The stamp it
\* leaves may be later by skew than the Date.now() of a pass that has read
\* the session: a pass is not atomic and the host writes while it runs, and
\* the stamp comes from the host's clock
HostAppWrites(sid, addMsg, nick, skew) ==
  /\ writes < MaxWrites
  /\ source[sid].present
  /\ addMsg => source[sid].msgs < MaxMsgs
  /\ source' = [source EXCEPT ![sid] =
       [@ EXCEPT !.msgs = IF addMsg THEN @ + 1 ELSE @,
                 !.ts = now + skew,
                 !.nick = IF addMsg /\ @ = NULL THEN nick ELSE @]]
  /\ writes' = writes + 1
  /\ UNCHANGED <<pureCall, readerVars, meta, now, lastSyncTime, autoSync, calls>>

\* a stored message of a Cursor session becomes unparsable
CorruptData(sid) ==
  /\ sid \in Corruptible
  /\ source[sid].present /\ source[sid].msgs > 0 /\ source[sid].data = "ok"
  /\ source' = [source EXCEPT ![sid].data = "corrupt"]
  /\ UNCHANGED <<pureCall, readerVars, writes, meta, now, lastSyncTime, autoSync, calls>>

\* ---------------------------------------------------------- facade calls
\* what can go wrong in the Cursor store during one bulk pass: the
\* timestamp query fails (connection, locked), the query loading the
\* session at fails (busy), or the session at is deleted after the
\* timestamp query listed it (gone)
Glitches(src, sel, limit) ==
  {NoGlitch} \cup
  (IF sel = "claude" \/ limit # 0 THEN {}
   ELSE {[kind |-> k, at |-> ""] : k \in {"connection", "locked"}} \cup
        {[kind |-> k, at |-> id] :
           k \in {"busy", "gone"},
           id \in SeqToSet(getAllSessionTimestamps(src, limit))})

Sels == {"cursor", "claude", "all"}

SyncSessions(limit, sel, glitch) ==
  LET r == syncSessions(meta, source, now, limit, sel, glitch) IN
  /\ meta' = r.meta
  /\ lastSyncTime' = IF r.err = "none" THEN now ELSE lastSyncTime
  /\ UNCHANGED <<pureCall, readerVars, source, writes, now, autoSync, calls>>

SetNickname(ref, nickname) ==
  /\ meta' = setNickname(meta, source, ref, nickname, now, autoSync).meta
  /\ UNCHANGED <<pureCall, readerVars, source, writes, now, lastSyncTime, autoSync, calls>>

AddTag(ref, tag) ==
  /\ meta' = addTag(meta, source, ref, tag, now, autoSync).meta
  /\ UNCHANGED <<pureCall, readerVars, source, writes, now, lastSyncTime, autoSync, calls>>

RemoveTag(ref, tag) ==
  /\ meta' = removeTag(meta, ref, tag, now)
  /\ UNCHANGED <<pureCall, readerVars, source, writes, now, lastSyncTime, autoSync, calls>>

\* MetadataDB.deleteSessionMetadata, reached through getMetadataDB()
DeleteSessionMetadata(sid) ==
  /\ sid \in DOMAIN meta
  /\ meta' = deleteSessionMetadata(meta, sid)
  /\ UNCHANGED <<pureCall, readerVars, source, writes, now, lastSyncTime, autoSync, calls>>

GetSession(ref) ==
  /\ meta' = getSession(meta, source, ref, now, autoSync).meta
  /\ UNCHANGED <<pureCall, readerVars, source, writes, now, lastSyncTime, autoSync, calls>>

Next ==
  \/ Tick
  \/ \E sid \in Sessions, nick \in Nicknames \cup {NULL}, skew \in {0, 1} :
       HostAppWrites(sid, TRUE, nick, skew)
  \/ \E sid \in Sessions, skew \in {0, 1} : HostAppWrites(sid, FALSE, NULL, skew)
  \/ \E sid \in Sessions : CorruptData(sid)
  \/ \E limit \in 0..MaxLimit, sel \in Sels :
       \E glitch \in Glitches(source, sel, limit) : SyncSessions(limit, sel, glitch)
  \/ \E ref \in Refs, nickname \in Nicknames : SetNickname(ref, nickname)
  \/ \E ref \in Refs, tag \in Tags : AddTag(ref, tag)
  \/ \E ref \in Refs, tag \in Tags : RemoveTag(ref, tag)
  \/ \E sid \in MetaIds : DeleteSessionMetadata(sid)
  \/ \E ref \in Refs \cup ({""} \X Nicknames) : GetSession(ref)

Spec == Init /\ [][Next]_vars

TypeOK ==
  /\ now \in 1..MaxTime
  /\ lastSyncTime \in 0..MaxTime
  /\ DOMAIN meta \subseteq MetaIds

\* ------------------------------------------------------------ listSessions
\* STALE_THRESHOLD_MS: the clock of the model counts in units of the
\* threshold (5 minutes)
STALE_THRESHOLD_MS == 1

\* isStale with >= instead of >
isStale_orEqual(t, last) == t - last >= STALE_THRESHOLD_MS

\* CursorContext.isStale
isStale(t, last) == t - last > STALE_THRESHOLD_MS

\* the entries [sessionId, timestamp] of the Map a timestamp query returns
Snapshot(src, ids, kind) ==
  [i \in 1..Len(ids) |-> [id |-> ids[i], ts |-> src[<<kind, ids[i]>>].ts]]

\* the timestamp query of a source, with autoSyncLimit at its default
TimestampsOf(src, kind) ==
  IF kind = "cursor" THEN Snapshot(src, getAllSessionTimestamps(src, 0), "cursor")
  ELSE Snapshot(src, getSessionTimestamps(src, 0), "claude")

\* the loop of syncCursorSessions / syncClaudeSessions from the entries todo
\* up to its next await: the entries that need no sync are passed, the first
\* that needs one is imported and the loop is suspended at
\* "await this.syncCursorSession(sessionId)" (inLoop); without such an entry
\* the loop ends.  imported says that the import returned the metadata, for
\* which the loop does synced++ when it resumes
RECURSIVE LoopUntilAwait(_, _, _, _, _)
LoopUntilAwait(m, todo, src, t, kind) ==
  IF todo = <<>> THEN [meta |-> m, todo |-> <<>>, inLoop |-> FALSE, imported |-> FALSE]
  ELSE LET e == Head(todo)
           r == IF kind = "cursor" THEN syncCursorSession(m, src, e.id, t, "none")
                ELSE syncClaudeSession(m, src, e.id, t) IN
       IF needsSync(m, <<kind, e.id>>, e.ts)
       THEN [meta |-> r.meta, todo |-> Tail(todo), inLoop |-> TRUE,
             imported |-> r.imported]
       ELSE LoopUntilAwait(m, Tail(todo), src, t, kind)

\* a loop that counts every import it awaits, also one that returned null
InPass_countsEveryAttempt(call, kind, r) ==
  [call EXCEPT !.pc = IF r.inLoop THEN "loop" ELSE "loopDone",
               !.kind = kind, !.todo = r.todo, !.ran = TRUE,
               !.synced = @ + (IF r.inLoop THEN 1 ELSE 0)]

\* the call after the loop over kind was entered or resumed with result r
InPass(call, kind, r) ==
  [call EXCEPT !.pc = IF r.inLoop THEN "loop" ELSE "loopDone",
               !.kind = kind, !.todo = r.todo, !.ran = TRUE,
               !.synced = @ + (IF r.imported THEN 1 ELSE 0)]

\* listSessions({syncFirst, source: sel}) is called and runs to its first
\* await: with no sync it reads and returns at once
ListSessions(c, syncFirst, sel) ==
  /\ calls[c].pc = "idle"
  /\ IF autoSync /\ (syncFirst \/ isStale(now, lastSyncTime))
     THEN LET kind == IF sel \in {"cursor", "all"} THEN "cursor" ELSE "claude"
              r == LoopUntilAwait(meta, TimestampsOf(source, kind), source, now, kind)
          IN /\ meta' = r.meta
             /\ calls' = [calls EXCEPT ![c] =
                  InPass([IdleCall EXCEPT !.syncFirst = syncFirst, !.sel = sel], kind, r)]
     ELSE /\ meta' = meta
          /\ calls' = [calls EXCEPT ![c] =
               [IdleCall EXCEPT !.pc = "returned", !.syncFirst = syncFirst, !.sel = sel]]
  /\ UNCHANGED <<pureCall, readerVars, source, writes, now, lastSyncTime, autoSync>>

\* a call suspended in a loop goes on to the next await
ResumeLoop(c) ==
  /\ calls[c].pc = "loop"
  /\ LET r == LoopUntilAwait(meta, calls[c].todo, source, now, calls[c].kind) IN
     /\ meta' = r.meta
     /\ calls' = [calls EXCEPT ![c] = InPass(calls[c], calls[c].kind, r)]
  /\ UNCHANGED <<pureCall, readerVars, source, writes, now, lastSyncTime, autoSync>>

\* syncCursorSessions has returned and syncSessions goes on to the Claude
\* sessions
ResumeClaude(c) ==
  /\ calls[c].pc = "loopDone" /\ calls[c].kind = "cursor" /\ calls[c].sel = "all"
  /\ LET r == LoopUntilAwait(meta, TimestampsOf(source, "claude"), source, now, "claude") IN
     /\ meta' = r.meta
     /\ calls' = [calls EXCEPT ![c] = InPass(calls[c], "claude", r)]
  /\ UNCHANGED <<pureCall, readerVars, source, writes, now, lastSyncTime, autoSync>>

\* a syncSessions that marks the data fresh only after a pass over all sources
FinishSync_allSourcesOnly(c) ==
  /\ calls[c].pc = "loopDone"
  /\ calls[c].kind = "claude" \/ calls[c].sel = "cursor"
  /\ lastSyncTime' = IF calls[c].sel = "all" THEN now ELSE lastSyncTime
  /\ calls' = [calls EXCEPT ![c].pc = "synced", ![c].synced = 0]
  /\ UNCHANGED <<pureCall, readerVars, source, writes, meta, now, autoSync>>

\* the last loop has returned: syncSessions sets lastSyncTime and returns
\* its count, which listSessions drops
FinishSync(c) ==
  /\ calls[c].pc = "loopDone"
  /\ calls[c].kind = "claude" \/ calls[c].sel = "cursor"
  /\ lastSyncTime' = now
  /\ calls' = [calls EXCEPT ![c].pc = "synced", ![c].synced = 0]
  /\ UNCHANGED <<pureCall, readerVars, source, writes, meta, now, autoSync>>

\* syncSessions has returned: listSessions reads the store and returns
ReadAndReturn(c) ==
  /\ calls[c].pc = "synced"
  /\ calls' = [calls EXCEPT ![c].pc = "returned"]
  /\ UNCHANGED <<pureCall, readerVars, source, writes, meta, now, lastSyncTime, autoSync>>

\* the caller has the result
Returned(c) ==
  /\ calls[c].pc = "returned"
  /\ calls' = [calls EXCEPT ![c] = IdleCall]
  /\ UNCHANGED <<pureCall, readerVars, source, writes, meta, now, lastSyncTime, autoSync>>

\* the clock advances
TickList ==
  /\ now < MaxListTime
  /\ now' = now + 1
  /\ UNCHANGED <<pureCall, readerVars, source, writes, meta, lastSyncTime, autoSync, calls>>

\* the process starts long after the epoch: Date.now() exceeds the threshold
InitList ==
  /\ source = [sid \in Sessions |->
                 [present |-> TRUE, msgs |-> 0, ts |-> 0, nick |-> NULL, data |-> "ok"]]
  /\ writes = 0
  /\ meta = <<>>
  /\ now = STALE_THRESHOLD_MS + 1
  /\ lastSyncTime = 0
  /\ autoSync \in BOOLEAN
  /\ calls = [c \in Callers |-> IdleCall]
  /\ ReaderIdle
  /\ PureIdle

NextList ==
  \/ TickList
  \/ \E sid \in Sessions : HostAppWrites(sid, TRUE, NULL, 0)
  \/ \E c \in Callers, syncFirst \in BOOLEAN, sel \in Sels : ListSessions(c, syncFirst, sel)
  \/ \E c \in Callers : ResumeLoop(c)
  \/ \E c \in Callers : ResumeClaude(c)
  \/ \E c \in Callers : FinishSync(c)
  \/ \E c \in Callers : ReadAndReturn(c)
  \/ \E c \in Callers : Returned(c)
  \/ SyncSessions(0, "all", NoGlitch)

SpecList == InitList /\ [][NextList]_vars

\* ------------------------------------------------- two interleaved passes
\* syncSessions(undefined, sel) is called and runs to its first await
StartSync(c, sel) ==
  /\ calls[c].pc = "idle"
  /\ \A d \in Callers : calls[d].pc # "idle" => calls[d].sel = sel
  /\ LET kind == IF sel \in {"cursor", "all"} THEN "cursor" ELSE "claude"
         r == LoopUntilAwait(meta, TimestampsOf(source, kind), source, now, kind)
     IN /\ meta' = r.meta
        /\ calls' = [calls EXCEPT ![c] = InPass([IdleCall EXCEPT !.sel = sel], kind, r)]
  /\ UNCHANGED <<pureCall, readerVars, source, writes, now, lastSyncTime, autoSync>>

\* the last loop has returned: syncSessions sets lastSyncTime and returns
\* its count to its caller
FinishPass(c) ==
  /\ calls[c].pc = "loopDone"
  /\ calls[c].kind = "claude" \/ calls[c].sel = "cursor"
  /\ lastSyncTime' = now
  /\ calls' = [calls EXCEPT ![c].pc = "done"]
  /\ UNCHANGED <<pureCall, readerVars, source, writes, meta, now, autoSync>>

\* the time at which the two passes start, and the time of the sync before
TwoStart == STALE_THRESHOLD_MS + 1
Before == TwoStart - 1

\* the stores the two passes find: sessions with or without a message, with
\* or without a nickname, touched before or after the last sync
SourcesOfTwo ==
  {src \in [Sessions -> [present : {TRUE}, msgs : 0..MaxMsgs, ts : {Before, TwoStart},
                         nick : Nicknames \cup {NULL}, data : {"ok", "corrupt"}]] :
     \A sid \in Sessions :
       /\ src[sid].msgs = 0 => src[sid].nick = NULL
       /\ src[sid].data = "corrupt" => sid \in Corruptible /\ src[sid].msgs > 0}

\* no source session changes while the passes run, and no timestamp lies in
\* the future: the clock is the only thing that moves beside the passes
InitTwo ==
  /\ source \in SourcesOfTwo
  /\ writes = 0
  /\ meta \in {<<>>, syncSessions(<<>>, source, Before, 0, "all", NoGlitch).meta}
  /\ now = TwoStart
  /\ lastSyncTime = 0
  /\ autoSync = TRUE
  /\ calls = [c \in Callers |-> IdleCall]
  /\ ReaderIdle
  /\ PureIdle

NextTwo ==
  \/ TickList
  \/ \E c \in Callers, sel \in Sels : StartSync(c, sel)
  \/ \E c \in Callers : ResumeLoop(c)
  \/ \E c \in Callers : ResumeClaude(c)
  \/ \E c \in Callers : FinishPass(c)

SpecTwo == InitTwo /\ [][NextTwo]_vars

\* ------------------------------------------------------- a pass that fails
StoreFailures == {"DBConnectionError", "DBLockedError"}

\* a syncSessions that sets lastSyncTime although its timestamp query threw
ListSessionsFails_marksFresh(c, syncFirst, sel, e) ==
  /\ calls[c].pc \in {"idle", "failed"}
  /\ autoSync /\ (syncFirst \/ isStale(now, lastSyncTime))
  /\ sel \in {"cursor", "all"}
  /\ e \in StoreFailures
  /\ lastSyncTime' = now
  /\ calls' = [calls EXCEPT ![c] =
       [IdleCall EXCEPT !.pc = "failed", !.syncFirst = syncFirst, !.sel = sel, !.ran = TRUE]]
  /\ UNCHANGED <<pureCall, readerVars, source, writes, meta, now, autoSync>>

\* listSessions whose pass throws e from getAllSessionTimestamps, before its
\* first await: syncSessions rejects before it sets lastSyncTime, and
\* listSessions rejects
ListSessionsFails(c, syncFirst, sel, e) ==
  /\ calls[c].pc \in {"idle", "failed"}
  /\ autoSync /\ (syncFirst \/ isStale(now, lastSyncTime))
  /\ sel \in {"cursor", "all"}
  /\ e \in StoreFailures
  /\ calls' = [calls EXCEPT ![c] =
       [IdleCall EXCEPT !.pc = "failed", !.syncFirst = syncFirst, !.sel = sel, !.ran = TRUE]]
  /\ UNCHANGED <<pureCall, readerVars, source, writes, meta, now, lastSyncTime, autoSync>>

\* the caller whose listSessions was rejected calls listSessions again
ListSessionsAgain(c, syncFirst, sel) ==
  /\ calls[c].pc = "failed"
  /\ IF autoSync /\ (syncFirst \/ isStale(now, lastSyncTime))
     THEN LET kind == IF sel \in {"cursor", "all"} THEN "cursor" ELSE "claude"
              r == LoopUntilAwait(meta, TimestampsOf(source, kind), source, now, kind)
          IN /\ meta' = r.meta
             /\ calls' = [calls EXCEPT ![c] =
                  InPass([IdleCall EXCEPT !.syncFirst = syncFirst, !.sel = sel], kind, r)]
     ELSE /\ meta' = meta
          /\ calls' = [calls EXCEPT ![c] =
               [IdleCall EXCEPT !.pc = "returned", !.syncFirst = syncFirst, !.sel = sel]]
  /\ UNCHANGED <<pureCall, readerVars, source, writes, now, lastSyncTime, autoSync>>

\* one client, which makes its calls one after the other
RetryCaller == 1

InitRetry == InitList /\ autoSync = TRUE

NextRetry ==
  \/ TickList
  \/ \E sid \in Sessions : HostAppWrites(sid, TRUE, NULL, 0)
  \/ \E syncFirst \in BOOLEAN, sel \in Sels : ListSessions(RetryCaller, syncFirst, sel)
  \/ \E syncFirst \in BOOLEAN, sel \in Sels, e \in StoreFailures :
       ListSessionsFails(RetryCaller, syncFirst, sel, e)
  \/ \E syncFirst \in BOOLEAN, sel \in Sels : ListSessionsAgain(RetryCaller, syncFirst, sel)
  \/ ResumeLoop(RetryCaller)
  \/ ResumeClaude(RetryCaller)
  \/ FinishSync(RetryCaller)
  \/ ReadAndReturn(RetryCaller)
  \/ Returned(RetryCaller)

SpecRetry == InitRetry /\ [][NextRetry]_vars

\* ------------------------------------------------------ auto-sync disabled
\* new CursorContext(undefined, undefined, false): the facade never syncs by
\* itself, and its user calls syncSessions
InitNoAuto == Init /\ autoSync = FALSE

NextNoAuto ==
  \/ Tick
  \/ \E sid \in Sessions, nick \in Nicknames \cup {NULL} :
       HostAppWrites(sid, TRUE, nick, 0)
  \/ \E sel \in Sels : SyncSessions(0, sel, NoGlitch)
  \/ \E ref \in Refs : GetSession(ref)
  \/ \E c \in Callers, syncFirst \in BOOLEAN, sel \in Sels : ListSessions(c, syncFirst, sel)
  \/ \E c \in Callers : Returned(c)

SpecNoAuto == InitNoAuto /\ [][NextNoAuto]_vars

\* ------------------------------------------------------------ the readers
\* The calls of CursorDB and of CursorContext.close are synchronous: none
\* starts while connect() is in its loop.
Outcomes == {"ok", "busy", "error"}

\* CursorDB.connect up to its loop: the handle it already holds, the check
\* that the file exists, and the first test of the loop condition
Connect(fileExists) ==
  /\ conn.pc # "loop"
  /\ conn' = [IdleConn(conn.maxRetries) EXCEPT
                !.pc = IF handles.cursor = NULL /\ fileExists /\ 1 <= conn.maxRetries
                       THEN "loop" ELSE "done",
                !.attempt = IF handles.cursor = NULL /\ fileExists THEN 1 ELSE 0,
                !.failure = IF handles.cursor = NULL /\ (~fileExists \/ conn.maxRetries < 1)
                            THEN "DBConnectionError" ELSE "none"]
  /\ reply' = [NoReply EXCEPT !.op = "connect"]
  /\ UNCHANGED <<pureCall, coreVars, handles, disk>>

\* one turn of the loop of connect: new Database(..) and the pragma succeed,
\* fail busy or fail otherwise; opened says that the constructor had
\* succeeded when the pragma threw.  The busy wait is part of the turn.
Attempt(outcome, opened) ==
  /\ conn.pc = "loop"
  /\ handles' = [handles EXCEPT
                   !.cursor = IF outcome = "ok" \/ opened THEN "open" ELSE @]
  /\ conn' = [conn EXCEPT
                !.tried = @ + 1,
                !.last = outcome,
                !.pc = IF outcome = "busy" /\ retryAllowed(conn.attempt, conn.maxRetries)
                       THEN "loop" ELSE "done",
                !.attempt = IF outcome = "busy" /\ retryAllowed(conn.attempt, conn.maxRetries)
                            THEN @ + 1 ELSE @,
                !.waits = IF outcome = "busy" /\ retryAllowed(conn.attempt, conn.maxRetries)
                          THEN Append(@, waitMs(conn.attempt)) ELSE @,
                !.failure = IF outcome = "ok" THEN "none"
                            ELSE IF outcome = "busy"
                              THEN IF retryAllowed(conn.attempt, conn.maxRetries)
                                   THEN "none" ELSE "DBLockedError"
                            ELSE "DBConnectionError"]
  /\ UNCHANGED <<pureCall, coreVars, disk, reply>>

\* CursorDB.getSessionBubbles on a store that is connected
GetSessionBubbles(id) ==
  /\ conn.pc # "loop"
  /\ handles.cursor = "open"
  /\ LET r == getSessionBubbles(disk, id) IN
       reply' = [op |-> "getSessionBubbles", id |-> id, err |-> r.err, value |-> r.value]
  /\ UNCHANGED <<pureCall, coreVars, handles, conn, disk>>

\* MetadataDB.connect, from the first call of any method of the store
MetadataConnect ==
  /\ conn.pc # "loop"
  /\ handles.metadata = NULL
  /\ handles' = [handles EXCEPT !.metadata = "open"]
  /\ reply' = [NoReply EXCEPT !.op = "connect"]
  /\ UNCHANGED <<pureCall, coreVars, conn, disk>>

\* CursorContext.close
Close(cursorThrows, metadataThrows) ==
  /\ conn.pc # "loop"
  /\ handles' = close(handles, cursorThrows, metadataThrows)
  /\ reply' = [NoReply EXCEPT !.op = "close"]
  /\ UNCHANGED <<pureCall, coreVars, conn, disk>>

InitReader ==
  /\ source = [sid \in Sessions |->
                 [present |-> TRUE, msgs |-> 0, ts |-> 0, nick |-> NULL, data |-> "ok"]]
  /\ writes = 0
  /\ meta = <<>>
  /\ now = 1
  /\ lastSyncTime = 0
  /\ autoSync = TRUE
  /\ calls = [c \in Callers |-> IdleCall]
  /\ handles = NoHandles
  /\ conn \in {IdleConn(m) : m \in 0..MaxRetriesOpt}
  /\ disk \in Disks
  /\ reply = NoReply
  /\ PureIdle

NextReader ==
  \/ \E fileExists \in BOOLEAN : Connect(fileExists)
  \/ \E outcome \in Outcomes, opened \in BOOLEAN : Attempt(outcome, opened)
  \/ \E id \in CursorIds : GetSessionBubbles(id)
  \/ MetadataConnect
  \/ \E cursorThrows, metadataThrows \in BOOLEAN : Close(cursorThrows, metadataThrows)

SpecReader == InitReader /\ [][NextReader]_vars

\* ------------------------------------------------------ the pure functions
\* getProjectNameFromPath applied to the path drawn
GetProjectNameFromPath ==
  /\ pureCall.fn = "none"
  /\ pureCall' = [pureCall EXCEPT !.fn = "getProjectNameFromPath",
                                  !.out = getProjectNameFromPath(pureCall.path)]
  /\ UNCHANGED <<coreVars, readerVars>>

\* getClaudeWorkspaceInfo applied to the messages drawn
GetClaudeWorkspaceInfo ==
  /\ pureCall.fn = "none"
  /\ pureCall' = [pureCall EXCEPT !.fn = "getClaudeWorkspaceInfo",
                                  !.info = getClaudeWorkspaceInfo(pureCall.messages)]
  /\ UNCHANGED <<coreVars, readerVars>>

\* parseLexicalText applied to the document drawn
ParseLexicalText ==
  /\ pureCall.fn = "none"
  /\ pureCall' = [pureCall EXCEPT !.fn = "parseLexicalText",
                                  !.out = parseLexicalText(pureCall.node)]
  /\ UNCHANGED <<coreVars, readerVars>>

InitPure ==
  /\ source = [sid \in Sessions |->
                 [present |-> TRUE, msgs |-> 0, ts |-> 0, nick |-> NULL, data |-> "ok"]]
  /\ writes = 0
  /\ meta = <<>>
  /\ now = 1
  /\ lastSyncTime = 0
  /\ autoSync = TRUE
  /\ calls = [c \in Callers |-> IdleCall]
  /\ ReaderIdle
  /\ pureCall \in {[NoCall EXCEPT !.path = p] : p \in Paths}
                  \cup {[NoCall EXCEPT !.messages = ms] : ms \in MessageLists}
                  \cup {[NoCall EXCEPT !.node = r] : r \in Roots}

NextPure ==
  \/ GetProjectNameFromPath
  \/ GetClaudeWorkspaceInfo
  \/ ParseLexicalText

SpecPure == InitPure /\ [][NextPure]_vars

\* ------------------------------------------------------------ properties
\* the record of sid in the store m2 is what it is in meta (or absent in both)
Untouched(m2, sid) ==
  IF sid \in DOMAIN meta THEN sid \in DOMAIN m2 /\ m2[sid] = meta[sid]
  ELSE sid \notin DOMAIN m2

\* the session has a message and its stored messages parse
LoadsOk(sid) == source[sid].msgs > 0 /\ source[sid].data = "ok"

\* the sessions a bulk pass over sel with this limit lists
Listed(sel, limit) ==
  (IF sel \in {"cursor", "all"}
   THEN {<<"cursor", id>> : id \in SeqToSet(getAllSessionTimestamps(source, limit))}
   ELSE {}) \cup
  (IF sel \in {"claude", "all"}
   THEN {<<"claude", id>> : id \in SeqToSet(getSessionTimestamps(source, limit))}
   ELSE {})

\* one iteration of the bulk loop of the session's source, from the store
\* as it is; fault is what happens to the store query of the load
LoopStep(sid, fault) ==
  LET start == [meta |-> meta, synced |-> 0, swallowed |-> 0] IN
  IF sid[1] = "cursor"
  THEN CursorLoop(start, <<sid[2]>>, source, now,
                  [kind |-> fault, at |-> IF fault = "none" THEN "" ELSE sid[2]])
  ELSE ClaudeLoop(start, <<sid[2]>>, source, now)

Faults(sid) == IF sid[1] = "cursor" THEN {"none", "busy", "gone"} ELSE {"none"}

\* C1: no bulk sync and no on-demand single-session import (the one of
\* setNickname and addTag, the one of getSession) creates or rewrites the
\* record of a source session that has zero messages.
C1_NoImportOfEmptySession ==
  \A sid \in Sessions : source[sid].msgs = 0 =>
    /\ \A limit \in 0..MaxLimit, sel \in Sels :
         \A glitch \in Glitches(source, sel, limit) :
           Untouched(syncSessions(meta, source, now, limit, sel, glitch).meta, sid)
    /\ Untouched(ImportIfMissing(meta, source, sid, now, TRUE), sid)
    /\ \A ref \in Refs : Untouched(getSession(meta, source, ref, now, TRUE).meta, sid)

\* a completed pass has just imported a session and left a session with no
\* message without a record
C1_Witness ==
  /\ lastSyncTime = now
  /\ \E sid \in Sessions : source[sid].msgs = 0 /\ sid \notin DOMAIN meta
  /\ \E sid \in Sessions \cap DOMAIN meta :
       /\ meta[sid].last_synced_at = now /\ meta[sid].message_count > 0
  /\ syncSessions(meta, source, now, 0, "all", NoGlitch).synced = 0

\* C2 (amended): a second run of syncSessions, at the same or a later time
\* and with no source written in between, leaves identical every record
\* whose last_synced_at after the first run is not earlier than the
\* timestamp of its session (and every record of no listed session).
C2_SecondRunKeepsSyncedRecords ==
  \A limit \in 0..MaxLimit, sel \in Sels :
    \A glitch \in Glitches(source, sel, limit) :
      LET first == syncSessions(meta, source, now, limit, sel, glitch) IN
      first.err = "none" =>
        \A t2 \in now..MaxTime :
          LET second == syncSessions(first.meta, source, t2, limit, sel, NoGlitch) IN
          \A sid \in DOMAIN first.meta :
            (sid \in Sessions => first.meta[sid].last_synced_at >= source[sid].ts)
              => sid \in DOMAIN second.meta /\ second.meta[sid] = first.meta[sid]

\* a pass completed earlier, a record it wrote is not older than its
\* session, and a second pass now changes nothing
C2_Witness ==
  /\ lastSyncTime > 0 /\ now > lastSyncTime
  /\ \E sid \in Sessions \cap DOMAIN meta :
       /\ meta[sid].last_synced_at = lastSyncTime
       /\ source[sid].ts <= lastSyncTime /\ source[sid].msgs > 0
  /\ syncSessions(meta, source, now, 0, "all", NoGlitch).meta = meta

\* C2 as stated: a second run, with no source timestamp changed since the
\* first completed, leaves every record identical in all fields.
C2_SecondRunChangesNothing ==
  \A limit \in 0..MaxLimit, sel \in Sels :
    LET first == syncSessions(meta, source, now, limit, sel, NoGlitch) IN
    \A t2 \in now..MaxTime :
      syncSessions(first.meta, source, t2, limit, sel, NoGlitch).meta = first.meta

\* the import of the loop writes the record: the load meets no fault, the
\* session has a message that parses, and no other record holds the nickname
\* recovered from it
ImportSucceeds(sid, fault) ==
  /\ fault = "none"
  /\ LoadsOk(sid)
  /\ ~UniqueViolation(meta, sid, source[sid].nick)

C4_NicknameUnique ==
  \A s1, s2 \in DOMAIN meta :
    s1 # s2 /\ meta[s1].nickname # NULL => meta[s1].nickname # meta[s2].nickname

\* a record holds the nickname that the messages of another session carry,
\* and a pass over that session leaves it without a record
C4_Witness ==
  \E a \in DOMAIN meta, b \in Sessions :
    /\ a # b /\ meta[a].nickname # NULL
    /\ source[b].nick = meta[a].nickname /\ LoadsOk(b)
    /\ b \notin DOMAIN meta
    /\ lastSyncTime > 0
    /\ b \notin DOMAIN syncSessions(meta, source, now, 0, "all", NoGlitch).meta

\* C5 as stated: setNickname(B, n) with n held by a different session A
\* fails with the nickname conflict and leaves the store exactly as it was.
C5_ConflictLeavesStore ==
  \A ref \in Refs, nickname \in Nicknames :
    LET res == Resolve(source, ref)
        r == setNickname(meta, source, ref, nickname, now, autoSync) IN
    res.err = "none" /\ getSessionByNickname(meta, nickname) \ {res.sid} # {}
      => r.err = "NicknameConflict" /\ r.meta = meta

\* C6: the last_synced_at of a record never decreases while the record
\* exists (Date.now() does not go back).
C6_SyncTimeNeverDecreases ==
  [][\A sid \in DOMAIN meta \cap DOMAIN meta' :
       meta'[sid].last_synced_at >= meta[sid].last_synced_at]_vars

\* a record that carries a tag was synced before now, and a pass now
\* imports its session again, which moves its last_synced_at forward
C6_Witness ==
  \E sid \in DOMAIN meta :
    /\ meta[sid].last_synced_at < now /\ meta[sid].tags # NoTags
    /\ syncSessions(meta, source, now, 0, "all", NoGlitch).meta[sid].last_synced_at = now

\* a store m2 has the sync times of meta: those of the records of meta are
\* kept, and a record it adds has none
KeepsSyncTimes(m2) ==
  \A sid \in DOMAIN m2 :
    m2[sid].last_synced_at = IF sid \in DOMAIN meta THEN meta[sid].last_synced_at
                             ELSE 0

\* C7 as stated: setNickname, addTag and removeTag of the metadata store
\* never set or change the last_synced_at of a record, the record they
\* create included.
C7_TaggingKeepsSyncTimes ==
  \A sid \in MetaIds :
    /\ \A nickname \in Nicknames :
         KeepsSyncTimes(MetadataDB_setNickname(meta, sid, nickname, now).meta)
    /\ \A tag \in Tags :
         /\ KeepsSyncTimes(MetadataDB_addTag(meta, sid, tag, now).meta)
         /\ KeepsSyncTimes(MetadataDB_removeTag(meta, sid, tag, now).meta)

\* C8 as stated: when a bulk pass without limit completes, every source
\* session it covers that has a message and loads without error has a record.
C8_PassCoversEverySession ==
  \A sel \in Sels :
    LET r == syncSessions(meta, source, now, 0, sel, NoGlitch) IN
    \A sid \in Sessions :
      (sel = "all" \/ sel = sid[1]) /\ LoadsOk(sid) => sid \in DOMAIN r.meta

\* the loads of a pass that fail with not-found (the session is gone) or
\* with corrupt data
FailedLoads(sel, limit, glitch) ==
  {sid \in Listed(sel, limit) :
     /\ sid[1] = "cursor"
     /\ needsSync(meta, sid, source[sid].ts)
     /\ \/ glitch.kind = "gone" /\ glitch.at = sid[2]
        \/ source[sid].msgs > 0 /\ source[sid].data = "corrupt"}

\* C9: in a bulk pass a session whose load fails with not-found or corrupt
\* data is skipped in place: the pass completes, writes nothing for that
\* session and does not count it, and the other listed sessions are
\* processed (one that needs a sync, loads and recovers no nickname is
\* imported).
C9_FailedLoadIsSkipped ==
  \A limit \in 0..MaxLimit, sel \in {"cursor", "all"} :
    \A glitch \in {g \in Glitches(source, sel, limit) : g.kind \in {"none", "gone"}} :
      LET r == syncSessions(meta, source, now, limit, sel, glitch)
          failed == FailedLoads(sel, limit, glitch)
          needing == {sid \in Listed(sel, limit) : needsSync(meta, sid, source[sid].ts)}
      IN failed # {} =>
           /\ r.err = "none"
           /\ \A sid \in failed : Untouched(r.meta, sid)
           /\ r.synced <= Cardinality(needing \ failed)
           /\ \A sid \in needing \ failed :
                LoadsOk(sid) /\ source[sid].nick = NULL =>
                  /\ sid \in DOMAIN r.meta
                  /\ r.meta[sid].last_synced_at = now

\* a pass meets a session with corrupt data that needs a sync, and imports
\* a session listed after it
C9_Witness ==
  LET listing == getAllSessionTimestamps(source, 0)
      r == syncSessions(meta, source, now, 0, "cursor", NoGlitch) IN
  /\ Len(listing) = 2
  /\ <<"cursor", listing[1]>> \in FailedLoads("cursor", 0, NoGlitch)
  /\ source[<<"cursor", listing[1]>>].data = "corrupt"
  /\ needsSync(meta, <<"cursor", listing[2]>>, source[<<"cursor", listing[2]>>].ts)
  /\ r.synced = 1
  /\ <<"cursor", listing[2]>> \in DOMAIN r.meta

\* C10 as stated: a store-connection or store-locked failure raised during
\* a bulk pass, by the timestamp query or by the load of a session, aborts
\* the pass and reaches the caller.
C10_StoreFailurePropagates ==
  \A sel \in {"cursor", "all"} :
    \A glitch \in Glitches(source, sel, 0) :
      \/ glitch.kind \in {"connection", "locked"}
      \/ /\ glitch.kind = "busy"
         /\ needsSync(meta, <<"cursor", glitch.at>>, source[<<"cursor", glitch.at>>].ts)
      => syncSessions(meta, source, now, 0, sel, glitch).err # "none"

\* the bare native ids a caller may pass
BareRefs == {""} \X NativeIds

\* C14 as stated: for a bare native id that exists in both sources,
\* getSession, setNickname and addTag each fail with the ambiguity error
\* (none of them picks one source).
C14_BareIdInBothIsAmbiguous ==
  \A ref \in BareRefs :
    getComposerData(source, ref[2]) /\ getSessionMessages(source, ref[2]) > 0 =>
      /\ getSession(meta, source, ref, now, autoSync).err = "Ambiguous"
      /\ \A nickname \in Nicknames :
           setNickname(meta, source, ref, nickname, now, autoSync).err = "Ambiguous"
      /\ \A tag \in Tags : addTag(meta, source, ref, tag, now, autoSync).err = "Ambiguous"

\* an id no source reader recognizes, bare and under either source prefix
UnknownRefs == {"", "cursor", "claude"} \X {"z"}

\* C15 as stated: setNickname and addTag called with an id, bare or
\* source-prefixed, that no source reader recognizes fail with
\* SessionNotFound and leave the store without a new record.
C15_UnknownIdIsNotFound ==
  \A ref \in UnknownRefs :
    /\ \A nickname \in Nicknames :
         LET r == setNickname(meta, source, ref, nickname, now, autoSync) IN
         r.err = "SessionNotFound" /\ DOMAIN r.meta = DOMAIN meta
    /\ \A tag \in Tags :
         LET r == addTag(meta, source, ref, tag, now, autoSync) IN
         r.err = "SessionNotFound" /\ DOMAIN r.meta = DOMAIN meta

\* C16 as stated: removeTag resolves a bare native id that exists in exactly
\* one source, so addTag(id, t) followed by removeTag(id, t) with the same
\* bare id leaves the session's tags without t.
C16_RemoveTagResolvesBareId ==
  \A ref \in BareRefs, tag \in Tags :
    LET added == addTag(meta, source, ref, tag, now, autoSync)
        after == removeTag(added.meta, ref, tag, now) IN
    added.err = "none" =>
      /\ added.sid \in DOMAIN after
      /\ ~Includes(after[added.sid].tags, tag)

\* session arguments with a colon: the ids of the sources and ids whose part
\* before the colon names no source
PrefixedRefs == {"cursor", "claude", "foo"} \X NativeIds

\* C19 as stated: every session_id the store holds after a facade operation
\* has the form <source>:<native-id> with source cursor or claude.
C19_StoredIdsAreComposite ==
  /\ \A sid \in DOMAIN meta : sid[1] \in {"cursor", "claude"}
  /\ \A ref \in BareRefs \cup PrefixedRefs :
       /\ \A nickname \in Nicknames :
            \A sid \in DOMAIN setNickname(meta, source, ref, nickname, now, autoSync).meta :
              sid[1] \in {"cursor", "claude"}
       /\ \A tag \in Tags :
            /\ \A sid \in DOMAIN addTag(meta, source, ref, tag, now, autoSync).meta :
                 sid[1] \in {"cursor", "claude"}
            /\ \A sid \in DOMAIN removeTag(meta, ref, tag, now) :
                 sid[1] \in {"cursor", "claude"}
       /\ \A sid \in DOMAIN getSession(meta, source, ref, now, autoSync).meta :
            sid[1] \in {"cursor", "claude"}

\* C20: in every record that sync imports and facade mutations produce,
\* has_project is false if and only if project_path and project_name are
\* both unset.
C20_HasProjectIffPathOrName ==
  \A sid \in DOMAIN meta :
    meta[sid].has_project = FALSE <=>
      (meta[sid].project_path = NULL /\ meta[sid].project_name = NULL)

\* the store holds an imported record with a project, an imported record
\* without one, and a tagged record
C20_Witness ==
  /\ \E sid \in DOMAIN meta : meta[sid].has_project /\ meta[sid].project_path # NULL
  /\ \E sid \in DOMAIN meta :
       /\ ~meta[sid].has_project /\ meta[sid].message_count > 0
       /\ meta[sid].project_name = NULL
  /\ \E sid \in DOMAIN meta : meta[sid].tags # NoTags

\* partial native ids: "s" starts the ids of a and b, "s1" the id of a only
PartialIds == {"s", "s1"}

\* the stored sessions whose native id starts with the partial id
StartingWith(partial) ==
  {sid \in DOMAIN meta : IsPrefix(Chars(partial), Chars(sid[2]))}

\* C17 as stated: lookup by an id prefix that more than one stored session
\* matches fails with the ambiguous-identifier error and returns no record,
\* and a prefix that exactly one stored session matches returns it.
C17_PrefixLookup ==
  \A partial \in PartialIds :
    LET r == getSession(meta, source, <<"", partial>>, now, autoSync) IN
    /\ Cardinality(StartingWith(partial)) > 1 => r.err = "Error" /\ r.found = {}
    /\ Cardinality(StartingWith(partial)) = 1 =>
         r.err = "none" /\ r.found = StartingWith(partial)

\* the arguments of getSession: ids bare and prefixed, known and unknown,
\* partial ids, nicknames
LookupRefs ==
  BareRefs \cup PrefixedRefs \cup UnknownRefs \cup ({""} \X Nicknames)
    \cup ({"", "cursor"} \X PartialIds)

\* the store as it is, and the store after one of its records was given a
\* nickname spelled as the composite id of b
LookupStores ==
  {meta} \cup {MetadataDB_setNickname(meta, sid, "cursor:b", now).meta : sid \in DOMAIN meta}

PassInProgress == {c \in Callers : calls[c].pc \in {"loop", "loopDone"}}

\* C11 as stated: at most one bulk-sync pass over the metadata store is in
\* progress at any time, also when two listSessions calls that find the data
\* stale are started without awaiting one another.
C11_AtMostOnePassInProgress == Cardinality(PassInProgress) <= 1

\* a listSessions call starts in this step
Starts(c) == calls[c].pc = "idle" /\ calls'[c].pc # "idle"

\* C12: with auto-sync enabled a listSessions call runs a bulk pass, and
\* reads only after it, if and only if syncFirst is set, or no bulk sync has
\* completed yet, or more than the threshold has elapsed since the last one
\* completed; otherwise it reads and returns at once.  lastSyncTime is the
\* time of the last completed bulk sync: it changes only when a pass
\* completes, to the time of that moment.
C12_SyncIffForcedOrStale ==
  [][/\ \A c \in Callers :
          Starts(c) /\ autoSync =>
            /\ calls'[c].ran <=>
                 \/ calls'[c].syncFirst
                 \/ lastSyncTime = 0
                 \/ now - lastSyncTime > STALE_THRESHOLD_MS
            /\ calls'[c].ran => calls'[c].pc \in {"loop", "loopDone"}
            /\ ~calls'[c].ran => calls'[c].pc = "returned" /\ meta' = meta
     /\ \A c \in Callers :
          calls[c].pc = "loopDone" /\ calls'[c].pc = "synced" => lastSyncTime' = now
     /\ lastSyncTime' # lastSyncTime =>
          /\ lastSyncTime' = now
          /\ \/ \E c \in Callers : calls[c].pc = "loopDone" /\ calls'[c].pc = "synced"
             \/ calls' = calls
     /\ \A c \in Callers : calls'[c].pc = "returned" /\ calls[c].pc # "returned" =>
          calls[c].pc = "synced" \/ (Starts(c) /\ ~calls'[c].ran)
    ]_vars

\* a bulk sync completed less than the threshold ago; one call without
\* syncFirst has returned without a pass, and, the threshold having passed,
\* another call without syncFirst is running one
C12_Witness ==
  /\ autoSync /\ lastSyncTime > 0
  /\ \E c, d \in Callers :
       /\ calls[c].pc = "returned" /\ ~calls[c].ran /\ ~calls[c].syncFirst
       /\ calls[d].pc \in {"loop", "loopDone"} /\ ~calls[d].syncFirst
       /\ now - lastSyncTime > STALE_THRESHOLD_MS

\* C13 as stated: a listSessions call with syncFirst = true has run a bulk
\* sync when it reads and returns, whatever the configuration of the facade.
C13_SyncFirstAlwaysSyncs ==
  \A c \in Callers : calls[c].pc = "returned" /\ calls[c].syncFirst => calls[c].ran

\* the tags given to addTag and removeTag: those of Tags and one more
ProbeTags == Tags \cup {"u"}

\* number of occurrences of x in a tag list (none in SQL NULL)
RECURSIVE Occurrences(_, _)
Occurrences(seq, x) ==
  IF seq = <<>> \/ seq = NoTags THEN 0
  ELSE (IF Head(seq) = x THEN 1 ELSE 0) + Occurrences(Tail(seq), x)

\* the tag is in the tag list of the record of sid
HasTag(m, sid, tag) == sid \in DOMAIN m /\ Occurrences(m[sid].tags, tag) > 0

SuppliedObjs(sid) ==
  (IF sid \in Sessions THEN {ImportedObj(source, sid, now)} ELSE {}) \cup
  {MetaObj(NULL, <<"u">>, NULL, NULL, FALSE, MaxTime, 0, NULL, 0),
   MetaObj(NULL, NoTags, NULL, NULL, FALSE, 0, 0, NULL, 0)}

\* C22 as stated: upsertSessionMetadata on an id that has a record replaces
\* every stored field except the id with the supplied value, an absent
\* value becoming unset or its default (the time of the call for the times,
\* the source of the composite id for an import).
C22_UpsertReplacesEveryField ==
  \A sid \in DOMAIN meta :
    \A obj \in SuppliedObjs(sid) :
      LET r == upsertSessionMetadata(meta, sid, obj, now) IN
      r.ok =>
        /\ r.meta[sid].nickname = obj.nickname
        /\ r.meta[sid].tags = obj.tags
        /\ r.meta[sid].project_path = obj.project_path
        /\ r.meta[sid].project_name = obj.project_name
        /\ r.meta[sid].has_project = obj.has_project
        /\ r.meta[sid].first_message_preview = obj.first_message_preview
        /\ r.meta[sid].message_count = obj.message_count
        /\ r.meta[sid].last_synced_at =
             IF obj.last_synced_at = 0 THEN now ELSE obj.last_synced_at
        /\ r.meta[sid].created_at = IF obj.created_at = 0 THEN now ELSE obj.created_at
        /\ obj.message_count > 0 => r.meta[sid].source = sid[1]

\* the values of the options projectPath and tag: not given, or one in use
ProjectPaths == {NULL, "/p/app", "/q/lib"}
TagOptions == {NULL} \cup Tags

\* C23 as stated: listSessions with source cursor (claude) returns exactly
\* the records of that source among those the other filters select, and
\* with source all the records of both.
C23_SourceFilter ==
  \A projectPath \in ProjectPaths, taggedOnly \in BOOLEAN, tag \in TagOptions :
    LET all == SeqToSet(listSessions(meta, projectPath, taggedOnly, 0, tag, "newest", "all"))
    IN \A sel \in {"cursor", "claude"} :
         SeqToSet(listSessions(meta, projectPath, taggedOnly, 0, tag, "newest", sel))
           = {sid \in all : sid[1] = sel}

\* C24 as stated: listSessions with taggedOnly = true returns only sessions
\* that have at least one tag, and without a limit every session with a tag
\* that the other filters select.
C24_TaggedOnly ==
  \A projectPath \in ProjectPaths :
    SeqToSet(listSessions(meta, projectPath, TRUE, 0, NULL, "newest", "all"))
      = {sid \in SeqToSet(listSessions(meta, projectPath, FALSE, 0, NULL, "newest", "all")) :
           Tagged(meta, sid)}

\* the sort keys of a listing, in its order
RECURSIVE KeysOf(_, _)
KeysOf(seq, key) ==
  IF seq = <<>> THEN <<>> ELSE <<key[Head(seq)]>> \o KeysOf(Tail(seq), key)

\* the limits given to listSessions; 0 is no limit
ListLimits == 0..2

\* C25 as stated: listSessions with sort order o and limit n returns the
\* first n records of the complete filtered set ordered by o (records with
\* equal keys may come in any order).
C25_LimitAfterSort ==
  \A sortBy \in SortOrders, limit \in ListLimits :
    \A projectPath \in ProjectPaths, tag \in TagOptions :
      LET key == SortKey(meta, sortBy)
          complete == listSessions(meta, projectPath, FALSE, 0, tag, sortBy, "all")
          limited == listSessions(meta, projectPath, FALSE, limit, tag, sortBy, "all")
      IN /\ KeysOf(limited, key) = KeysOf(Slice(complete, limit), key)
         /\ SeqToSet(limited) \subseteq SeqToSet(complete)
         /\ \A i \in 1..(Len(complete) - 1) : key[complete[i]] >= key[complete[i + 1]]

\* C26 as stated: getStats is consistent in every reachable state:
\* totalSessionsWithMetadata is at most totalSessionsInCursor, and the counts
\* of sessions with nicknames, with tags and with projects are each at most
\* totalSessionsWithMetadata.
C26_StatsConsistent ==
  LET stats == getStats(meta, source) IN
  /\ stats.totalSessionsWithMetadata <= stats.totalSessionsInCursor
  /\ stats.sessionsWithNicknames <= stats.totalSessionsWithMetadata
  /\ stats.sessionsWithTags <= stats.totalSessionsWithMetadata
  /\ stats.sessionsWithProjects <= stats.totalSessionsWithMetadata

\* C27: after close() on the facade the connection of the source store and
\* the connection of the metadata store both report not connected, whether or
\* not each had been opened; close() raises no error, also for a store that
\* was never opened, and a close() that finds nothing open changes nothing.
C27_CloseDisconnectsBoth ==
  [][\A cursorThrows, metadataThrows \in BOOLEAN :
       Close(cursorThrows, metadataThrows) =>
         /\ ~isConnected(handles'.cursor)
         /\ ~isConnected(handles'.metadata)
         /\ reply'.err = "none"
         /\ (handles = NoHandles => handles' = handles)
         /\ close(handles', cursorThrows, metadataThrows) = handles']_vars

\* close() has run after a successful attempt had opened the source store,
\* and neither store holds a handle any more
C27_Witness ==
  /\ reply.op = "close"
  /\ conn.last = "ok"
  /\ handles = NoHandles

\* the record of a session that the reader is to consult: its entry in the
\* single document, else its legacy value
RecordOf(d, id) ==
  IF DocEntry(d, id).kind # "absent" THEN DocEntry(d, id) ELSE LegacyRow(d, id)

\* the stored messages of a session, in the order of the headers of its record
RECURSIVE InHeaderOrder(_, _)
InHeaderOrder(headers, stored) ==
  IF Len(headers) = 0 THEN <<>>
  ELSE LET rest == InHeaderOrder(SubSeq(headers, 1, Len(headers) - 1), stored)
           last == headers[Len(headers)] IN
       IF last \in stored THEN Append(rest, last) ELSE rest

MessagesOf(d, id) == InHeaderOrder(RecordOf(d, id).headers, StoredBubbles(d, id))

\* C28: getSessionBubbles raises SessionNotFound when no record exists for
\* the id, and returns the empty sequence without error when a record exists
\* and the session has zero messages.
C28_NotFoundIsNotEmpty ==
  \A id \in CursorIds :
    LET r == getSessionBubbles(disk, id) IN
      /\ (DocEntry(disk, id).kind = "absent" /\ LegacyRow(disk, id).kind = "absent"
            => r.err = "SessionNotFoundError")
      /\ (RecordOf(disk, id).kind = "ok" /\ MessagesOf(disk, id) = <<>>
            => r.err = "none" /\ r.value = <<>>)
      /\ (reply.op = "getSessionBubbles" /\ reply.id = id
            => reply.err = r.err /\ reply.value = r.value)

\* getSessionBubbles has returned the empty sequence for a session whose
\* legacy record exists and lists no message
C28_Witness ==
  /\ reply.op = "getSessionBubbles"
  /\ reply.err = "none"
  /\ reply.value = <<>>
  /\ DocEntry(disk, reply.id).kind = "absent"
  /\ LegacyRow(disk, reply.id).kind = "ok"
  /\ LegacyRow(disk, reply.id).headers = <<>>

\* C29: a session recorded in either shape, the single document consulted
\* first and the legacy key when the id is absent there, with k >= 1 stored
\* messages yields those k messages in the order of its headers.
C29_BothShapesYieldMessages ==
  \A id \in CursorIds :
    RecordOf(disk, id).kind = "ok" /\ Len(MessagesOf(disk, id)) >= 1
      => /\ getSessionBubbles(disk, id).err = "none"
         /\ getSessionBubbles(disk, id).value = MessagesOf(disk, id)

\* C30: connect makes at most maxRetries attempts; every attempt but the last
\* one made was busy and was followed by a wait of
\* min(100 * 2^(attempt-1), 1000) ms; a busy failure of attempt maxRetries
\* ends in the store-locked failure, and a failure that is not busy ends in a
\* connection failure at once.
C30_ConnectRetriesAreBounded ==
  /\ conn.tried <= conn.maxRetries
  /\ conn.pc = "loop" => conn.attempt = conn.tried + 1 /\ conn.attempt <= conn.maxRetries
  /\ conn.tried >= 1 => Len(conn.waits) = conn.tried - (IF conn.pc = "loop" THEN 0 ELSE 1)
  /\ \A k \in 1..Len(conn.waits) :
       conn.waits[k] = (IF 100 * 2^(k - 1) < 1000 THEN 100 * 2^(k - 1) ELSE 1000)
  /\ conn.last = "busy" /\ conn.pc = "done"
       => conn.tried = conn.maxRetries /\ conn.failure = "DBLockedError"
  /\ conn.last = "busy" /\ conn.tried < conn.maxRetries => conn.pc = "loop"
  /\ conn.last = "error" => conn.pc = "done" /\ conn.failure = "DBConnectionError"
  /\ conn.last = "ok" => conn.pc = "done" /\ conn.failure = "none"

\* a connect with maxRetries = 6 has failed store-locked after six busy
\* attempts and five waits, the last of them capped
C30_Witness ==
  /\ conn.maxRetries = 6
  /\ conn.tried = 6
  /\ conn.failure = "DBLockedError"
  /\ conn.waits = <<100, 200, 400, 800, 1000>>

\* the characters of a path that follow its last separator of either kind
RECURSIVE FinalSegment(_)
FinalSegment(s) ==
  IF s = <<>> \/ s[Len(s)] \in {"/", "\\"} THEN <<>>
  ELSE Append(FinalSegment(SubSeq(s, 1, Len(s) - 1)), s[Len(s)])

\* the path without the separators at its end
RECURSIVE WithoutTrailingSeparators(_)
WithoutTrailingSeparators(s) ==
  IF s = <<>> THEN s
  ELSE IF s[Len(s)] \in {"/", "\\"}
    THEN WithoutTrailingSeparators(SubSeq(s, 1, Len(s) - 1))
  ELSE s

\* C31: the project name of a path is its final non-empty segment once the
\* trailing separators are stripped, '/' and '\' both being separators; it is
\* "unknown" for an empty or all-separator path; and a path gives the same
\* name with a separator added at its end.
C31_ProjectNameIsFinalSegment ==
  pureCall.fn = "getProjectNameFromPath" =>
    LET stripped == WithoutTrailingSeparators(pureCall.path) IN
      /\ pureCall.out = (IF stripped = <<>> THEN Unknown ELSE FinalSegment(stripped))
      /\ \A sep \in {"/", "\\"} :
           getProjectNameFromPath(Append(pureCall.path, sep)) = pureCall.out

\* the paths recovered from the messages, as a set
RecoveredPaths(messages) == {messages[i] : i \in 1..Len(messages)} \ {""}

\* the position of the first message that carries a path, 0 if none does
FirstWithPath(messages) ==
  IF \E i \in 1..Len(messages) : messages[i] # ""
  THEN CHOOSE i \in 1..Len(messages) :
         messages[i] # "" /\ \A j \in 1..(i - 1) : messages[j] = ""
  ELSE 0

\* C38: in the workspace info of a message sequence the primary path is the
\* first recovered path in message order, the path set holds each recovered
\* path exactly once, has-project holds iff the set is non-empty and
\* multi-workspace iff it has more than one path; with no recoverable path
\* there is no project, no path and no primary path.
C38_WorkspaceInfoIsConsistent ==
  pureCall.fn = "getClaudeWorkspaceInfo" =>
    LET info == pureCall.info
        messages == pureCall.messages
        recovered == RecoveredPaths(messages) IN
      /\ {info.allPaths[i] : i \in 1..Len(info.allPaths)} = recovered
      /\ Len(info.allPaths) = Cardinality(recovered)
      /\ info.hasProject <=> recovered # {}
      /\ info.isMultiWorkspace <=> Cardinality(recovered) > 1
      /\ IF FirstWithPath(messages) = 0
           THEN info.primaryPath = NULL /\ info.allPaths = <<>> /\ ~info.hasProject
           ELSE info.primaryPath = messages[FirstWithPath(messages)]

\* the info of three messages, the first without a path and the other two
\* with the same path, has been computed
C38_Witness ==
  /\ pureCall.fn = "getClaudeWorkspaceInfo"
  /\ pureCall.messages = <<"", "/q", "/q">>
  /\ pureCall.info.primaryPath = "/q"
  /\ pureCall.info.allPaths = <<"/q">>

\* the inline-code nodes of a document
InlineCodeNodes(root) ==
  {root.children[i].children[j] :
     <<i, j>> \in {p \in (1..Len(root.children)) \X (1..MaxChildren) :
                     /\ p[2] <= Len(root.children[p[1]].children)
                     /\ root.children[p[1]].children[p[2]].type = "code-highlight"}}

\* C39: in the flattening of a document an inline-code node with text t
\* contributes t between two single backticks and nothing else, so that t
\* appears once.
C39_InlineCodeWrappedOnce ==
  pureCall.fn = "parseLexicalText" =>
    \A n \in InlineCodeNodes(pureCall.node) :
      extractTextFromNode(n) = <<Backtick>> \o n.text \o <<Backtick>>

\* C32: when the bulk loop imports again a session that has a record, the
\* record's tags are cleared and its nickname becomes the one recovered from
\* the session's messages (none if there is none): what addTag and
\* setNickname had assigned is gone.
C32_ReimportDropsTagsAndNickname ==
  \A sid \in Listed("all", 0) \cap DOMAIN meta :
    LET r == LoopStep(sid, "none") IN
    r.synced = 1 =>
      /\ r.meta[sid].tags = NoTags
      /\ r.meta[sid].nickname = source[sid].nick
      /\ rowToMetadata(r.meta[sid]).tags = NoTags

\* a record carries a tag and a nickname that its session's messages do not
\* hold, and the loop imports the session again
C32_Witness ==
  \E sid \in Listed("all", 0) \cap DOMAIN meta :
    /\ meta[sid].tags \notin {NoTags, <<>>}
    /\ meta[sid].nickname # NULL
    /\ source[sid].nick = NULL
    /\ LoopStep(sid, "none").synced = 1

\* C33: the facade has one last-bulk-sync time for all sources.  A pass
\* restricted to one source sets it as a pass over all sources does, and
\* while no more than the threshold has elapsed since then a listSessions
\* without syncFirst runs no pass, whatever source it asks for.
C33_OneSyncTimeForAllSources ==
  [][/\ \A c \in Callers :
          calls[c].pc = "loopDone" /\ calls'[c].pc = "synced" =>
            /\ lastSyncTime' = now
            /\ ~isStale(now', lastSyncTime')
     /\ \A c \in Callers :
          /\ Starts(c) /\ ~calls'[c].syncFirst
          /\ lastSyncTime # 0 /\ now - lastSyncTime <= STALE_THRESHOLD_MS
          => ~calls'[c].ran /\ calls'[c].pc = "returned" /\ meta' = meta
    ]_vars

\* a pass restricted to the Cursor store has just completed, and a
\* listSessions for the Claude Code sessions, without syncFirst, has returned
\* without a pass although a Claude Code session with a message has no record
C33_Witness ==
  \E c, d \in Callers :
    /\ calls[c].pc = "synced" /\ calls[c].sel = "cursor"
    /\ calls[d].pc = "returned" /\ calls[d].sel = "claude"
    /\ ~calls[d].ran /\ ~calls[d].syncFirst
    /\ \E id \in ClaudeIds :
         source[<<"claude", id>>].msgs > 0 /\ <<"claude", id>> \notin DOMAIN meta

\* the sum of the counts of the passes of the callers 1..n
RECURSIVE SumSynced(_)
SumSynced(n) == IF n = 0 THEN 0 ELSE calls[n].synced + SumSynced(n - 1)

\* every caller's pass has returned
AllDone == \A c \in Callers : calls[c].pc = "done"

\* the sessions the passes over sel have imported: their records are stamped
\* with a time of the passes
ImportedByPasses(sel) ==
  {sid \in Listed(sel, 0) :
     sid \in DOMAIN meta /\ meta[sid].last_synced_at >= TwoStart}

\* the sessions that needed an import when the passes started: those the
\* passes imported and those that need one still
NeededAtStart(sel) ==
  ImportedByPasses(sel) \cup
  {sid \in Listed(sel, 0) : needsSync(meta, sid, source[sid].ts)}

\* C34 (amended): when bulk passes over the same stores interleave at their
\* suspension points, no source session changing and no timestamp lying in
\* the future, a session is checked and imported in one step, so every
\* session is imported by at most one pass: at every moment the counts sum
\* to the number of sessions imported, and when the passes have returned the
\* sessions that need an import still are those whose import fails (no
\* message, unreadable, or a nickname another record holds).
C34_EachImportCountedOnce ==
  /\ SumSynced(MaxCalls) = Cardinality({sid \in DOMAIN meta :
                                         meta[sid].last_synced_at >= TwoStart})
  /\ AllDone =>
       /\ SumSynced(MaxCalls) = Cardinality(ImportedByPasses(calls[1].sel))
       /\ \A sid \in Listed(calls[1].sel, 0) :
            needsSync(meta, sid, source[sid].ts) =>
              ~(LoadsOk(sid) /\ ~UniqueViolation(meta, sid, source[sid].nick))

\* the passes have returned and each has imported a session, while a session
\* without a message needs an import still
C34_Witness ==
  /\ AllDone
  /\ \A c \in Callers : calls[c].synced >= 1
  /\ \E sid \in Listed(calls[1].sel, 0) :
       source[sid].msgs = 0 /\ needsSync(meta, sid, source[sid].ts)

\* C34 as stated: the returned counts sum to the number of sessions that
\* needed an import.
C34_CountsSumToNeeded ==
  AllDone => SumSynced(MaxCalls) = Cardinality(NeededAtStart(calls[1].sel))

\* C35: after any sequence of addTag and removeTag the statistic
\* sessions-with-tags is the number of records whose tag set is not empty; a
\* record whose last tag was removed is not counted.
C35_TaggedCountIsNonEmptyTagSets ==
  getStats(meta, source).sessionsWithTags =
    Cardinality({sid \in DOMAIN meta : meta[sid].tags \notin {NoTags, <<>>}})

====
